---- MODULE Spec2Model ----
(***************************************************************************)
(* Role assignment (js/roleManager.js) and the Deception Duel              *)
(* (RockPaperScissorsChallenge in js/challenges/firstImpressionsChallenge  *)
(* .js) of The Spy Academy, as state machines over the objects' fields.    *)
(*                                                                         *)
(* Every button handler, timer callback and async continuation is one      *)
(* action.  Math.random() is an input: it returns r / RandDen for some     *)
(* r in 0 .. RandDen-1.  Clicks reach the topmost overlay only: a button   *)
(* covered by a full-screen overlay of higher z-index takes no input.      *)
(***************************************************************************)
EXTENDS Integers, Sequences, FiniteSets, TLC

\* ------------------------------------------------------------------ bounds
\* Math.random() takes the values 0/RandDen .. (RandDen-1)/RandDen.
RandDen == 3
\* Inside a Fisher-Yates loop it takes the values 0/ShuffleDen ..
\* (ShuffleDen-1)/ShuffleDen.
ShuffleDen == 2
\* Largest roster length handed to startRoleAssignment (9 is already invalid).
MaxRoster == 9
\* Confirm Choice clicks delivered while one decision overlay is on screen.
MaxConfirmClicks == 2
\* Ties played in one duel.
MaxTies == 8
\* Player counts of the duels played to the end (Spec); the duels of every
\* player count 3..8 are played through their first turn (SpecOpening).
DuelPlayerCounts == {3}

\* ------------------------------------------------------------- JS helpers
\* JavaScript null.
null == -1

Range(s) == {s[k] : k \in 1..Len(s)}

RandomLevels == 0..(RandDen - 1)

\* Math.floor(Math.random() * n) when Math.random() returned r / RandDen.
FloorRandom(r, n) == (r * n) \div RandDen

\* Math.random() < 0.3 and Math.random() < 0.5 when it returned r / RandDen.
RandomBelow03(r) == 10 * r < 3 * RandDen
RandomBelow05(r) == 2 * r < RandDen

\* [array[i], array[j]] = [array[j], array[i]] on 1-based positions.
SwapOverwriting(array, i, j) == [array EXCEPT ![i] = array[j]]

Swap(array, i, j) == [array EXCEPT ![i] = array[j], ![j] = array[i]]

\* Fisher-Yates loop `for (i = len-1; i > 0; i--)`, p = i + 1 being the
\* 1-based position; the result is the set of arrays the draws can produce.
RECURSIVE ShuffleFrom(_, _)
ShuffleFrom(array, p) ==
    IF p <= 1 THEN {array}
    ELSE UNION { ShuffleFrom(Swap(array, p, ((r * p) \div ShuffleDen) + 1), p - 1) :
                   r \in 0..(ShuffleDen - 1) }

shuffleArray(array) == ShuffleFrom(array, Len(array))

\* --------------------------------------------------------------- variables
VARIABLES
    \* RoleManager
    players,             \* RoleManager.players (the array every later phase aliases)
    currentPlayerIndex,  \* RoleManager.currentPlayerIndex
    isAssigningRoles,    \* RoleManager.isAssigningRoles
    knowEachOther,       \* RoleManager.badPlayersKnowEachOther
    rmScreen,            \* screen of the role flow that is on display
    rmError,             \* startRoleAssignment rejected with an Error
    playersData,         \* GameManager.gameState.playersData, the roster handed over
    userSkipped,         \* showInitialInstructions: let userSkipped
    narration,           \* showInitialInstructions: the await it is suspended at
    callScreens,         \* 'player-call-screen' overlays in the document
    \* colour selection scene
    colorScreen,         \* "grid" (setupColorSelection), "dropdown"
                         \* (manualSetupColorSelection) or "none"
    selectedColors,      \* setupColorSelection: var selectedColors
    replayColors,        \* manualSetupColorSelection: const selectedColors
    disabledOptions,     \* manualSetupColorSelection: disabled <option>s per <select>
    confirmDisabled,     \* the disabled property of the confirm-colors button
    \* RockPaperScissorsChallenge
    winThresholds,           \* {good, bad}
    gameEnded,
    winningTeam,             \* "undefined" until a team has won
    teamLeaderRotation,      \* array of 0-based positions in players
    currentTeamLeaderIndex,
    lastSelectedPlayer,      \* 0-based position of the player object, or null
    completedFirstRound,
    teamLeader,              \* 0-based position of the player object, or null
    chosenPlayer,            \* 0-based position of the player object, or null
    aiMove,
    suggestedMove,
    playerMove,
    gameResult,
    gameScore,               \* {goodTeam, badTeam, ties}
    votingActive,
    votingComplete,
    \* the duel's screens and the closures of their handlers
    screen,                  \* overlay of the duel that receives the clicks
    selectedPlayer,          \* bindCombinedSelection: let selectedPlayer
    selectedMove,            \* bindCombinedSelection: let selectedMove
    finalMove,               \* showPlayerDecision: let selectedMove
    pendingBattles,          \* confirm-choice handlers started and not yet at showDeceptionAnalysis
    analysisOverlays,        \* TURN OVER overlays in the document
    rpsError,                \* init() rejected with an Error
    \* FirstImpressionsChallenge
    fiCurrentPlayerIndex,    \* FirstImpressionsChallenge.currentPlayerIndex
    votes,                   \* this.votes: the Map's entries in insertion order
    fiScreen,                \* screen of the suspicion vote that is on display
    firstImpressions,        \* gameManager.gameState.firstImpressions: <<>> while
                             \* undefined, else <<the object stored>>
    \* RockPaperScissorsChallenge, intervention vote
    rpsVotes,                \* this.votes: the Map's entries in insertion order
    votesCast,               \* showTeamVoting: let votesCast
    totalVotes,              \* showTeamVoting: const totalVotes
    votingOverlay,           \* this.votingOverlay holds an overlay
    resultTimers,            \* setTimeout(processVoteResult, 500) pending
    voteResult               \* showVoteResult: its argument result, "null" when
                             \* no vote-result overlay is in the document

csVars == <<colorScreen, selectedColors, replayColors, disabledOptions,
            confirmDisabled>>

roleVars == <<players, currentPlayerIndex, isAssigningRoles, knowEachOther,
              rmScreen, rmError, playersData, userSkipped, narration,
              callScreens>>

rmVars == <<roleVars, csVars>>

duelVars == <<winThresholds, gameEnded, winningTeam, teamLeaderRotation,
              currentTeamLeaderIndex, lastSelectedPlayer, completedFirstRound,
              teamLeader, chosenPlayer, aiMove, suggestedMove, playerMove,
              gameResult, gameScore, votingActive, votingComplete, screen,
              selectedPlayer, selectedMove, finalMove, pendingBattles,
              analysisOverlays, rpsError>>

fiVars == <<fiCurrentPlayerIndex, votes, fiScreen, firstImpressions>>

\* The intervention vote of the duel: showTeamVoting() and its closures.
tvVars == <<rpsVotes, votesCast, totalVotes, votingOverlay, resultTimers,
            voteResult>>

vars == <<rmVars, duelVars, fiVars, tvVars>>

\* Sentences showInitialInstructions narrates before its 3-second pause.
NarrationSentences == 6

\* No showInitialInstructions call is suspended and no call screen is in the
\* document: before the first role assignment and after a completed one.
InstructionsOver ==
    /\ userSkipped = FALSE
    /\ narration = 0
    /\ callScreens = 0

\* Entries of the colors array that the selections explored range over; the
\* tokens 201..208 stand for its eight entries.
PaletteSize == 4

colors == 201..(200 + PaletteSize)

\* The colour selection scene of a page just loaded.
NoColorSelection ==
    /\ colorScreen = "none"
    /\ selectedColors = <<>>
    /\ replayColors = <<>>
    /\ disabledOptions = <<>>
    /\ confirmDisabled = FALSE

\* The colour selection scene after confirmHandler has started the game with
\* the roster playersData: the closure keeps its selectedColors and the
\* button stays disabled.
GridConfirmed ==
    /\ colorScreen = "none"
    /\ selectedColors = [i \in 1..Len(playersData) |-> playersData[i].color]
    /\ replayColors = <<>>
    /\ disabledOptions = <<>>
    /\ confirmDisabled = TRUE

\* State after `new FirstImpressionsChallenge(gameManager)`, and of a session
\* that has not constructed one.
FiConstructed ==
    /\ fiCurrentPlayerIndex = null
    /\ votes = <<>>
    /\ fiScreen = "none"
    /\ firstImpressions = <<>>

\* State after `new RockPaperScissorsChallenge(gameManager)`.
DuelConstructed ==
    /\ winThresholds = [good |-> 0, bad |-> 0]
    /\ gameEnded = FALSE
    /\ winningTeam = "undefined"
    /\ teamLeaderRotation = <<>>
    /\ currentTeamLeaderIndex = 0
    /\ lastSelectedPlayer = null
    /\ completedFirstRound = FALSE
    /\ teamLeader = null
    /\ chosenPlayer = null
    /\ aiMove = "null"
    /\ suggestedMove = "null"
    /\ playerMove = "null"
    /\ gameResult = "null"
    /\ gameScore = [goodTeam |-> 0, badTeam |-> 0, ties |-> 0]
    /\ votingActive = FALSE
    /\ votingComplete = FALSE
    /\ screen = "none"
    /\ selectedPlayer = null
    /\ selectedMove = "null"
    /\ finalMove = "null"
    /\ pendingBattles = 0
    /\ analysisOverlays = 0
    /\ rpsError = FALSE
    /\ rpsVotes = <<>>
    /\ votesCast = 0
    /\ totalVotes = 0
    /\ votingOverlay = FALSE
    /\ resultTimers = 0
    /\ voteResult = "null"

\* ------------------------------------------------------------ RoleManager
\* The roster typed in on the colour screen: n players, name and colour
\* tokens distinct per seat.
RosterOf(n) == [i \in 1..n |-> [name |-> 100 + i, color |-> 200 + i]]

\* switch (playerCount) of generatePlayerRoles: badPlayerCount.
BadPlayerCountDouble(n) ==
    CASE n = 3 -> 2
      [] n = 4 -> 1
      [] n = 5 -> 2
      [] n = 6 -> 2
      [] n = 7 -> 2
      [] n = 8 -> 3
      [] OTHER -> 0

BadPlayerCount(n) ==
    CASE n = 3 -> 1
      [] n = 4 -> 1
      [] n = 5 -> 2
      [] n = 6 -> 2
      [] n = 7 -> 2
      [] n = 8 -> 3
      [] OTHER -> 0

\* switch (playerCount) of generatePlayerRoles: badPlayersKnowEachOther.
BadPlayersKnowEachOtherAlways(n) == n \in {5, 6, 7}

BadPlayersKnowEachOther(n) == n \in {6, 7}

\* The while loop drawing distinct random indices; a duplicate draw is
\* retried, so the outcomes are the duplicate-free draw sequences.
RECURSIVE BadDraws(_, _, _)
BadDraws(n, count, chosen) ==
    IF Len(chosen) >= count THEN {chosen}
    ELSE UNION { BadDraws(n, count, Append(chosen, idx)) :
                   idx \in {FloorRandom(r, n) : r \in RandomLevels} \ Range(chosen) }

\* The records pushed by the for loop, then the Bad roles and the partner
\* links, before the shuffle.  badIdx holds 0-based indices.
LabelledRoster(roster, badIdx) ==
    LET n == Len(roster)
        linked == BadPlayersKnowEachOther(n) /\ Len(badIdx) = 2
    IN [i \in 1..n |->
          [index       |-> i - 1,
           name        |-> roster[i].name,
           color       |-> roster[i].color,
           role        |-> IF (i - 1) \in Range(badIdx) THEN "Bad" ELSE "Good",
           hasReceived |-> FALSE,
           partnerId   |-> IF linked /\ badIdx[1] = i - 1 THEN badIdx[2]
                           ELSE IF linked /\ badIdx[2] = i - 1 THEN badIdx[1]
                           ELSE null,
           team        |-> "unset"]]

\* generatePlayerRoles on a valid roster: every array this.players can hold
\* when it returns.
generatePlayerRoles(roster) ==
    UNION { shuffleArray(LabelledRoster(roster, badIdx)) :
              badIdx \in BadDraws(Len(roster),
                                  BadPlayerCount(Len(roster)), <<>>) }

\* The guard `playerCount < 3 || playerCount > 8` of generatePlayerRoles.
ValidPlayerCountFromTwo(n) == ~(n < 2 \/ n > 8)

ValidPlayerCount(n) == ~(n < 3 \/ n > 8)

\* callNextPlayer(): past the last player it completes the assignment,
\* otherwise it appends the call screen of players[currentPlayerIndex].
callNextPlayer ==
    IF currentPlayerIndex >= Len(players)
    THEN /\ rmScreen' = "complete"
         /\ isAssigningRoles' = FALSE
         /\ UNCHANGED callScreens
    ELSE /\ rmScreen' = "call"
         /\ callScreens' = callScreens + 1
         /\ UNCHANGED isAssigningRoles

\* The startRoleAssignment closure of showInitialInstructions: the
\* instructions overlay goes and callNextPlayer() runs for the first player.
callFirstPlayer == callNextPlayer

\* startRoleAssignment(playersData) called with roster: reset,
\* generatePlayerRoles, then showInitialInstructions.  An invalid count throws
\* before any record is pushed and before the instructions overlay is built.
\* With a voice manager the narration starts and the call suspends at its
\* first speak(); without one the closure runs at once.
beginRoleAssignment(roster) ==
    \E voiceManager \in BOOLEAN :
        /\ playersData' = roster
        /\ currentPlayerIndex' = 0
        /\ isAssigningRoles' = TRUE
        /\ IF ValidPlayerCount(Len(roster))
           THEN /\ players' \in generatePlayerRoles(roster)
                /\ knowEachOther' = BadPlayersKnowEachOther(Len(roster))
                /\ rmError' = FALSE
                /\ userSkipped' = FALSE
                /\ IF voiceManager
                   THEN /\ rmScreen' = "instructions"
                        /\ narration' = 1
                        /\ UNCHANGED callScreens
                   ELSE /\ rmScreen' = "call"
                        /\ callScreens' = callScreens + 1
                        /\ UNCHANGED narration
           ELSE /\ players' = <<>>
                /\ rmError' = TRUE
                /\ UNCHANGED <<knowEachOther, rmScreen, userSkipped,
                               narration, callScreens>>

\* A call of startRoleAssignment with a roster of any length.
startRoleAssignment ==
    /\ rmScreen = "none"
    /\ ~rmError
    /\ \E n \in 0..MaxRoster : beginRoleAssignment(RosterOf(n))
    /\ UNCHANGED <<csVars, duelVars, fiVars, tvVars>>

\* skip-instructions-btn click: userSkipped = true, voiceManager.stop(), then
\* the closure.  The button lies in the instructions overlay, which the
\* closure removes.
skipInstructions ==
    /\ rmScreen = "instructions"
    /\ userSkipped' = TRUE
    /\ callFirstPlayer
    /\ UNCHANGED <<players, currentPlayerIndex, knowEachOther, rmError,
                   playersData, narration, duelVars, fiVars, tvVars>>
    /\ UNCHANGED csVars

\* A narrated sentence ends (VoiceManager.speak resolves, also when stop()
\* cancelled it): `if (userSkipped) return`, else the next sentence, and
\* after the last one the 3-second pause.  speak() settles by resolving on
\* every path (each synthesis failure is caught inside it and the browser
\* voice resolves on end, on error and on its timeout), so the catch block
\* of showInitialInstructions is not entered.
narrationSpoken ==
    /\ narration \in 1..NarrationSentences
    /\ narration' = IF userSkipped THEN 0 ELSE narration + 1
    /\ UNCHANGED <<players, currentPlayerIndex, isAssigningRoles,
                   knowEachOther, rmScreen, rmError, playersData, userSkipped,
                   callScreens, duelVars, fiVars, tvVars>>
    /\ UNCHANGED csVars

\* The test after the pause of whether to proceed without a click.
autoProceedsAlways(skipped) ==
    TRUE

autoProceeds(skipped) ==
    ~skipped

\* The 3-second pause after the narration elapses: the closure runs unless
\* the user has skipped meanwhile.
pauseElapsed ==
    /\ narration = NarrationSentences + 1
    /\ narration' = 0
    /\ IF autoProceeds(userSkipped)
       THEN callFirstPlayer
       ELSE UNCHANGED <<rmScreen, isAssigningRoles, callScreens>>
    /\ UNCHANGED <<players, currentPlayerIndex, knowEachOther, rmError,
                   playersData, userSkipped, duelVars, fiVars, tvVars>>
    /\ UNCHANGED csVars

\* The seats whose identity showPlayerSecret(player) puts on the screen: the
\* player's own, and for a Bad player with a partner link the partner's.
secretSeatsAllBad(seat) ==
    {seat} \cup {k \in 1..Len(players) :
                   players[seat].role = "Bad" /\ players[k].role = "Bad"}

secretSeats(seat) ==
    {seat} \cup {k \in 1..Len(players) :
                   /\ players[seat].role = "Bad"
                   /\ players[seat].partnerId # null
                   /\ players[k].index = players[seat].partnerId}

\* ready-btn click: the call screen goes and showPlayerSecret(currentPlayer)
\* marks hasReceived.
readyClick ==
    /\ rmScreen = "call"
    /\ players' = [players EXCEPT ![currentPlayerIndex + 1].hasReceived = TRUE]
    /\ rmScreen' = "secret"
    /\ callScreens' = callScreens - 1
    /\ UNCHANGED <<currentPlayerIndex, isAssigningRoles, knowEachOther, rmError,
                   playersData, userSkipped, narration, duelVars, fiVars, tvVars>>
    /\ UNCHANGED csVars

\* continue-btn click: showNextPlayerPrompt increments the index and either
\* completes the assignment or shows the hand-over prompt.
continueClick ==
    /\ rmScreen = "secret"
    /\ currentPlayerIndex' = currentPlayerIndex + 1
    /\ IF currentPlayerIndex + 1 >= Len(players)
       THEN rmScreen' = "complete" /\ isAssigningRoles' = FALSE
       ELSE rmScreen' = "prompt" /\ UNCHANGED isAssigningRoles
    /\ UNCHANGED <<players, knowEachOther, rmError, playersData, userSkipped,
                   narration, callScreens, duelVars, fiVars, tvVars>>
    /\ UNCHANGED csVars

\* finish-btn click: callNextPlayer for the next player.
finishClick ==
    /\ rmScreen = "prompt"
    /\ callNextPlayer
    /\ UNCHANGED <<players, currentPlayerIndex, knowEachOther, rmError,
                   playersData, userSkipped, narration, duelVars, fiVars, tvVars>>
    /\ UNCHANGED csVars

\* State after `new RoleManager(gameManager)`.
RolesInit ==
    /\ players = <<>>
    /\ currentPlayerIndex = 0
    /\ isAssigningRoles = FALSE
    /\ knowEachOther = FALSE
    /\ rmScreen = "none"
    /\ rmError = FALSE
    /\ playersData = <<>>
    /\ InstructionsOver
    /\ NoColorSelection
    /\ DuelConstructed
    /\ FiConstructed

RolesNext ==
    \/ startRoleAssignment
    \/ skipInstructions
    \/ narrationSpoken
    \/ pauseElapsed
    \/ readyClick
    \/ continueClick
    \/ finishClick

SpecRoles == RolesInit /\ [][RolesNext]_vars

\* ------------------------------------------------------ role-assignment claims
\* generatePlayerRoles has returned normally.
RolesAssigned == rmScreen # "none"

BadSeats == {i \in 1..Len(players) : players[i].role = "Bad"}
GoodSeats == {i \in 1..Len(players) : players[i].role = "Good"}
LinkedSeats == {i \in 1..Len(players) : players[i].partnerId # null}

\* The distribution table of the specification, 3->1 4->1 5->2 6->2 7->2 8->3.
TableBadCount == <<1, 1, 2, 2, 2, 3>>

\* C1: for every player count 3..8 and every outcome of the draws, exactly
\* the table's number of players is Bad, every player is Good or Bad, and
\* Good plus Bad is the player count.
C1_BadCountPerTable ==
    RolesAssigned =>
        /\ Len(players) = Len(playersData)
        /\ Len(players) \in 3..8
        /\ Cardinality(BadSeats) = TableBadCount[Len(players) - 2]
        /\ \A i \in 1..Len(players) : players[i].role \in {"Good", "Bad"}
        /\ Cardinality(GoodSeats) + Cardinality(BadSeats) = Len(players)

\* An 8-player roster has been labelled (three Bad players).
C1_Witness == RolesAssigned /\ Len(players) = 8 /\ Cardinality(BadSeats) = 3

\* C2: partner links exist iff the player count is 6 or 7; then exactly two
\* players are linked, both Bad, to each other; otherwise nobody is linked.
C2_PartnerLinks ==
    RolesAssigned =>
        IF Len(players) \in {6, 7}
        THEN /\ Cardinality(LinkedSeats) = 2
             /\ \A i \in LinkedSeats :
                  /\ players[i].role = "Bad"
                  /\ \E j \in LinkedSeats :
                       /\ j # i
                       /\ players[j].index # players[i].index
                       /\ players[i].partnerId = players[j].index
                       /\ players[j].partnerId = players[i].index
        ELSE LinkedSeats = {}

\* A 7-player roster with its linked pair, and the linked pair not adjacent
\* in the reveal order.
C2_Witness ==
    /\ RolesAssigned
    /\ Len(players) = 7
    /\ Cardinality(LinkedSeats) = 2
    /\ \E i, j \in LinkedSeats : j > i + 1

\* C3: a request with a roster size outside 3..8 fails with an error and
\* assigns nothing: the roster is empty, no record carries a role, and no
\* screen of the reveal sequence is ever shown.
C3_InvalidCountRejected ==
    (isAssigningRoles /\ (Len(playersData) < 3 \/ Len(playersData) > 8)) =>
        /\ rmError
        /\ players = <<>>
        /\ rmScreen = "none"
        /\ currentPlayerIndex = 0

\* A request with 2 or with 9 players has been rejected.
C3_Witness == rmError /\ isAssigningRoles /\ Len(playersData) \in {2, 9}

\* ----------------------------------------------- FirstImpressionsChallenge
\* A JavaScript Map as the sequence of its entries in insertion order.
MapHas(map, k) == \E i \in 1..Len(map) : map[i].key = k

MapGet(map, k) == map[CHOOSE i \in 1..Len(map) : map[i].key = k].value

\* Map.prototype.set: a present key keeps its place and takes the new value,
\* an absent key is appended.
MapSetOverLast(map, k, v) ==
    IF map = <<>> THEN <<[key |-> k, value |-> v]>>
    ELSE [map EXCEPT ![Len(map)] = [key |-> k, value |-> v]]

MapSet(map, k, v) ==
    IF MapHas(map, k)
    THEN [i \in 1..Len(map) |->
            IF map[i].key = k THEN [key |-> k, value |-> v] ELSE map[i]]
    ELSE Append(map, [key |-> k, value |-> v])

\* Object.fromEntries(map) for integer keys: the properties of the object,
\* which JavaScript enumerates in ascending key order.
RECURSIVE ObjectFromEntries(_)
ObjectFromEntries(map) ==
    IF map = <<>> THEN <<>>
    ELSE LET low == CHOOSE i \in 1..Len(map) :
                      \A j \in 1..Len(map) : map[i].key <= map[j].key
             rest == [j \in 1..(Len(map) - 1) |->
                        IF j < low THEN map[j] ELSE map[j + 1]]
         IN <<map[low]>> \o ObjectFromEntries(rest)

\* analyzeVotes: this.votes.forEach filling suspicionCounts, from entry i on.
RECURSIVE CountSuspicions(_, _, _)
CountSuspicions(map, i, counts) ==
    IF i > Len(map) THEN counts
    ELSE LET suspectedIndex == map[i].value
             before == IF MapHas(counts, suspectedIndex)
                       THEN MapGet(counts, suspectedIndex) ELSE 0
         IN CountSuspicions(map, i + 1, MapSet(counts, suspectedIndex, before + 1))

\* analyzeVotes: the test `count > maxSuspicions`.
ExceedsOrEquals(count, maxSuspicions) == count >= maxSuspicions

Exceeds(count, maxSuspicions) == count > maxSuspicions

\* analyzeVotes: suspicionCounts.forEach looking for the most suspected, from
\* entry i on, with mostSuspected and maxSuspicions as found so far.
RECURSIVE FindMostSuspected(_, _, _, _)
FindMostSuspected(counts, i, mostSuspected, maxSuspicions) ==
    IF i > Len(counts) THEN mostSuspected
    ELSE IF Exceeds(counts[i].value, maxSuspicions)
         THEN FindMostSuspected(counts, i + 1, counts[i].key, counts[i].value)
         ELSE FindMostSuspected(counts, i + 1, mostSuspected, maxSuspicions)

\* analyzeVotes(): the object stored in gameState.firstImpressions.
analyzeVotes(map) ==
    LET suspicionCounts == CountSuspicions(map, 1, <<>>)
    IN [votes           |-> ObjectFromEntries(map),
        suspicionCounts |-> ObjectFromEntries(suspicionCounts),
        mostSuspected   |-> FindMostSuspected(suspicionCounts, 1, null, 0)]

\* FirstImpressionsChallenge.init(): reset, shuffle of the shared players
\* array in place, then the instructions overlay.
fiInit ==
    /\ rmScreen = "complete"
    /\ colorScreen = "none"
    /\ fiScreen = "none"
    /\ screen = "none"
    /\ ~rpsError
    /\ fiCurrentPlayerIndex' = 0
    /\ votes' = <<>>
    /\ players' \in shuffleArray(players)
    /\ fiScreen' = "instructions"
    /\ UNCHANGED <<currentPlayerIndex, isAssigningRoles, knowEachOther, rmScreen,
                   rmError, playersData, userSkipped, narration, callScreens,
                   firstImpressions, duelVars, tvVars>>
    /\ UNCHANGED csVars

\* callNextPlayer() of the vote with the index at idx: the call screen of
\* players[idx], or completeVotingProcess() with its analyzeVotes().
fiCallNextPlayerEarly(idx) ==
    IF idx >= Len(players) - 1
    THEN /\ firstImpressions' = <<analyzeVotes(votes')>>
         /\ fiScreen' = "complete"
    ELSE /\ fiScreen' = "call"
         /\ UNCHANGED firstImpressions

fiCallNextPlayer(idx) ==
    IF idx >= Len(players)
    THEN /\ firstImpressions' = <<analyzeVotes(votes')>>
         /\ fiScreen' = "complete"
    ELSE /\ fiScreen' = "call"
         /\ UNCHANGED firstImpressions

\* begin-impressions-btn click: setupVotingDisplay() and callFirstPlayer().
beginImpressions ==
    /\ fiScreen = "instructions"
    /\ fiCurrentPlayerIndex' = 0
    /\ votes' = votes
    /\ fiCallNextPlayer(0)
    /\ UNCHANGED <<rmVars, duelVars, tvVars>>

\* ready-to-vote-btn click: showVotingInterface(currentPlayer).
readyToVote ==
    /\ fiScreen = "call"
    /\ fiScreen' = "voting"
    /\ UNCHANGED <<fiCurrentPlayerIndex, votes, firstImpressions, rmVars, duelVars, tvVars>>

\* showVotingInterface: the .suspect-option elements drawn for the voter at
\* position voterIndex, by their data-player-index.
suspectOptionsEveryone(voterIndex) == 0..(Len(players) - 1)

suspectOptions(voterIndex) ==
    {index \in 0..(Len(players) - 1) : index # voterIndex}

\* this.currentPlayerIndex++ of the confirmation timer.
nextVoterSkipping(idx) == idx + 2

nextVoter(idx) == idx + 1

\* recordVote: const votingPlayerIndex = this.players.indexOf(votingPlayer),
\* for the player object at players[idx]: the first position that holds it.
votingPlayerIndexStable(idx) ==
    players[idx + 1].index

votingPlayerIndex(idx) ==
    CHOOSE p \in 0..(Len(players) - 1) :
        /\ players[p + 1] = players[idx + 1]
        /\ \A q \in 0..(p - 1) : players[q + 1] # players[idx + 1]

\* .suspect-option click: recordVote(votingPlayer, suspectedPlayerIndex) and
\* the confirmation panel that replaces the options.
recordVote ==
    /\ fiScreen = "voting"
    /\ \E suspectedPlayerIndex \in suspectOptions(fiCurrentPlayerIndex) :
         votes' = MapSet(votes, votingPlayerIndex(fiCurrentPlayerIndex),
                         suspectedPlayerIndex)
    /\ fiScreen' = "confirmation"
    /\ UNCHANGED <<fiCurrentPlayerIndex, firstImpressions, rmVars, duelVars, tvVars>>

\* The 3 s timer of showVoteConfirmation: next index, callNextPlayer().
voteConfirmationTimer ==
    /\ fiScreen = "confirmation"
    /\ fiCurrentPlayerIndex' = nextVoter(fiCurrentPlayerIndex)
    /\ votes' = votes
    /\ fiCallNextPlayer(nextVoter(fiCurrentPlayerIndex))
    /\ UNCHANGED <<rmVars, duelVars, tvVars>>

\* The 5 s timer of completeVotingProcess: the voting display goes and
\* startRockPaperScissorsChallenge() constructs the duel.
votingCompleteTimer ==
    /\ fiScreen = "complete"
    /\ fiScreen' = "done"
    /\ UNCHANGED <<fiCurrentPlayerIndex, votes, firstImpressions, rmVars, duelVars, tvVars>>

\* ------------------------------------------- RockPaperScissorsChallenge
Moves == {"rock", "paper", "scissors"}

\* const moves = ['rock', 'paper', 'scissors'] (0-based in the source).
MovesArray == <<"rock", "paper", "scissors">>

\* determineWinner(p, a) with its `win` table.
Win(m) == CASE m = "rock" -> "scissors"
            [] m = "paper" -> "rock"
            [] m = "scissors" -> "paper"

determineWinnerReversed(p, a) ==
    IF p = a THEN "tie"
    ELSE IF Win(a) = p THEN "player" ELSE "ai"

determineWinner(p, a) ==
    IF p = a THEN "tie"
    ELSE IF Win(p) = a THEN "player" ELSE "ai"

\* setWinThresholds(playerCount): the `thresholds` object literal.
setWinThresholdsSevenAsSix(playerCount) ==
    CASE playerCount = 3 -> [good |-> 4, bad |-> 3]
      [] playerCount = 4 -> [good |-> 5, bad |-> 3]
      [] playerCount = 5 -> [good |-> 5, bad |-> 4]
      [] playerCount = 6 -> [good |-> 6, bad |-> 5]
      [] playerCount = 7 -> [good |-> 6, bad |-> 5]
      [] playerCount = 8 -> [good |-> 8, bad |-> 6]

setWinThresholds(playerCount) ==
    CASE playerCount = 3 -> [good |-> 4, bad |-> 3]
      [] playerCount = 4 -> [good |-> 5, bad |-> 3]
      [] playerCount = 5 -> [good |-> 5, bad |-> 4]
      [] playerCount = 6 -> [good |-> 6, bad |-> 5]
      [] playerCount = 7 -> [good |-> 7, bad |-> 5]
      [] playerCount = 8 -> [good |-> 8, bad |-> 6]

\* convertRolesToTeams: player.team = player.role === 'Bad' ? 'bad' : 'good'.
convertRolesToTeamsByPosition(roster) ==
    [i \in 1..Len(roster) |->
       [roster[i] EXCEPT !.team = IF i <= BadPlayerCount(Len(roster))
                                  THEN "bad" ELSE "good"]]

convertRolesToTeams(roster) ==
    [i \in 1..Len(roster) |->
       [roster[i] EXCEPT !.team = IF roster[i].role = "Bad" THEN "bad" ELSE "good"]]

\* checkWinConditions() on the score `score`: the value it returns and the
\* gameEnded / winningTeam it leaves behind.
checkWinConditionsStrict(score) ==
    IF gameEnded
    THEN [ret |-> FALSE, gameEnded |-> gameEnded, winningTeam |-> winningTeam]
    ELSE IF score.goodTeam > winThresholds.good
    THEN [ret |-> TRUE, gameEnded |-> TRUE, winningTeam |-> "good"]
    ELSE IF score.badTeam > winThresholds.bad
    THEN [ret |-> TRUE, gameEnded |-> TRUE, winningTeam |-> "bad"]
    ELSE [ret |-> FALSE, gameEnded |-> gameEnded, winningTeam |-> winningTeam]

checkWinConditions(score) ==
    IF gameEnded
    THEN [ret |-> FALSE, gameEnded |-> gameEnded, winningTeam |-> winningTeam]
    ELSE IF score.goodTeam >= winThresholds.good
    THEN [ret |-> TRUE, gameEnded |-> TRUE, winningTeam |-> "good"]
    ELSE IF score.badTeam >= winThresholds.bad
    THEN [ret |-> TRUE, gameEnded |-> TRUE, winningTeam |-> "bad"]
    ELSE [ret |-> FALSE, gameEnded |-> gameEnded, winningTeam |-> winningTeam]

\* nextTeamLeaderTurn() with the leader pointer at idx and the rotation
\* `rotation`: the victory screen (which removes every challenge overlay) or
\* selectTeamLeader().  overlaysLeft is the number of TURN OVER overlays in
\* the document when it is called.
nextTeamLeaderTurnFirstLeader(idx, rotation, overlaysLeft) ==
    LET c == checkWinConditions(gameScore)
    IN /\ gameEnded' = c.gameEnded
       /\ winningTeam' = c.winningTeam
       /\ IF c.ret
          THEN /\ screen' = "victory"
               /\ analysisOverlays' = 0
               /\ UNCHANGED teamLeader
          ELSE /\ teamLeader' = rotation[1]
               /\ screen' = "leader"
               /\ analysisOverlays' = overlaysLeft

nextTeamLeaderTurn(idx, rotation, overlaysLeft) ==
    LET c == checkWinConditions(gameScore)
    IN /\ gameEnded' = c.gameEnded
       /\ winningTeam' = c.winningTeam
       /\ IF c.ret
          THEN /\ screen' = "victory"
               /\ analysisOverlays' = 0
               /\ UNCHANGED teamLeader
          ELSE /\ teamLeader' = rotation[idx + 1]
               /\ screen' = "leader"
               /\ analysisOverlays' = overlaysLeft

\* this.gameScore of the constructor.
gameScoreCarriedOver ==
    gameScore

gameScoreConstructed ==
    [goodTeam |-> 0, badTeam |-> 0, ties |-> 0]

\* new RockPaperScissorsChallenge(gameManager) and its init(): the fields of
\* the constructor, then validation, thresholds, teams, shuffled leader
\* rotation, and the introduction overlay with its Begin Challenge button.
\* Its callers are completeRoleAssignment (through startFirstChallenge, when
\* the voting scene is skipped) and the 5 s timer of completeVotingProcess,
\* both at the end of a role assignment, which a roster enters from the
\* confirm button of the colour screen: no challenge starts while that
\* screen is up.
init ==
    /\ rmScreen = "complete"
    /\ colorScreen = "none"
    /\ screen = "none"
    /\ fiScreen \in {"none", "done"}
    /\ ~rpsError
    /\ IF Len(players) < 3 \/ Len(players) > 8
       THEN /\ rpsError' = TRUE
            /\ winThresholds' = [good |-> 0, bad |-> 0]
            /\ teamLeaderRotation' = <<>>
            /\ UNCHANGED <<players, screen>>
       ELSE /\ winThresholds' = setWinThresholds(Len(players))
            /\ players' = convertRolesToTeams(players)
            /\ teamLeaderRotation' \in
                 shuffleArray([k \in 1..Len(players) |-> k - 1])
            /\ screen' = "intro"
            /\ UNCHANGED rpsError
    /\ gameEnded' = FALSE
    /\ winningTeam' = "undefined"
    /\ currentTeamLeaderIndex' = 0
    /\ lastSelectedPlayer' = null
    /\ completedFirstRound' = FALSE
    /\ teamLeader' = null
    /\ chosenPlayer' = null
    /\ aiMove' = "null"
    /\ suggestedMove' = "null"
    /\ playerMove' = "null"
    /\ gameResult' = "null"
    /\ gameScore' = gameScoreConstructed
    /\ rpsVotes' = <<>>
    /\ votingComplete' = FALSE
    /\ votingActive' = FALSE
    /\ votingOverlay' = FALSE
    /\ UNCHANGED <<currentPlayerIndex, isAssigningRoles, knowEachOther, rmScreen,
                   rmError, playersData, userSkipped, narration, callScreens>>
    /\ UNCHANGED <<fiVars, votesCast, totalVotes, resultTimers, voteResult>>
    /\ UNCHANGED <<selectedPlayer, selectedMove, finalMove, pendingBattles,
                   analysisOverlays>>
    /\ UNCHANGED csVars

\* Begin Challenge click: cleanup() resolves the introduction, then
\* startContinuousGameplay() resets the pointer and calls nextTeamLeaderTurn().
beginChallenge ==
    /\ screen = "intro"
    /\ currentTeamLeaderIndex' = 0
    /\ nextTeamLeaderTurn(0, teamLeaderRotation, analysisOverlays)
    /\ UNCHANGED <<rmVars, fiVars, tvVars>>
    /\ UNCHANGED <<winThresholds, teamLeaderRotation, lastSelectedPlayer,
                   completedFirstRound, chosenPlayer, aiMove, suggestedMove,
                   playerMove, gameResult, gameScore, votingActive,
                   votingComplete, selectedPlayer, selectedMove, finalMove,
                   pendingBattles, rpsError>>

\* availablePlayers of bindCombinedSelection: everyone but the Team Leader
\* and the player selected in the preceding turn.
availablePlayersWithLast ==
    {q \in 0..(Len(players) - 1) : q # teamLeader}

availablePlayers ==
    {q \in 0..(Len(players) - 1) :
        q # teamLeader /\ ~(lastSelectedPlayer # null /\ lastSelectedPlayer = q)}

\* start-turn-btn click: startRockPaperScissors() draws the AI move and
\* builds the console; bindCombinedSelection() pre-selects a lone candidate.
startRockPaperScissors ==
    /\ screen = "leader"
    /\ pendingBattles = 0
    /\ \E r \in RandomLevels : aiMove' = MovesArray[FloorRandom(r, 3) + 1]
    /\ selectedPlayer' = IF Cardinality(availablePlayers) = 1
                         THEN CHOOSE q \in availablePlayers : TRUE
                         ELSE null
    /\ selectedMove' = "null"
    /\ screen' = "console"
    /\ UNCHANGED <<rmVars, fiVars, tvVars>>
    /\ UNCHANGED <<winThresholds, gameEnded, winningTeam, teamLeaderRotation,
                   currentTeamLeaderIndex, lastSelectedPlayer,
                   completedFirstRound, teamLeader, chosenPlayer, suggestedMove,
                   playerMove, gameResult, gameScore, votingActive,
                   votingComplete, finalMove, pendingBattles, analysisOverlays,
                   rpsError>>

\* The .teammate-option:not(.disabled) elements: renderPlayerSelection()
\* draws no option for the Team Leader and marks lastSelectedPlayer's option
\* disabled.
enabledOptionsNoLock ==
    {q \in 0..(Len(players) - 1) : q # teamLeader}

enabledOptionsRestLeader ==
    {q \in 0..(Len(players) - 1) :
        /\ q # teamLeader
        /\ ~(lastSelectedPlayer # null /\ lastSelectedPlayer = q)
        /\ ~(lastSelectedPlayer # null /\
             q = teamLeaderRotation[((currentTeamLeaderIndex + Len(players) - 1)
                                       % Len(players)) + 1])}

enabledOptions ==
    {q \in 0..(Len(players) - 1) :
        q # teamLeader /\ ~(lastSelectedPlayer # null /\ lastSelectedPlayer = q)}

\* Click on a .teammate-option:not(.disabled); disabled options get no
\* listener.
teammateOptionClick ==
    /\ screen = "console"
    /\ \E q \in enabledOptions : selectedPlayer' = q
    /\ UNCHANGED <<rmVars, fiVars, tvVars>>
    /\ UNCHANGED <<winThresholds, gameEnded, winningTeam, teamLeaderRotation,
                   currentTeamLeaderIndex, lastSelectedPlayer,
                   completedFirstRound, teamLeader, chosenPlayer, aiMove,
                   suggestedMove, playerMove, gameResult, gameScore,
                   votingActive, votingComplete, screen, selectedMove,
                   finalMove, pendingBattles, analysisOverlays, rpsError>>

\* Click on a .move-suggestion of the console.
moveSuggestionClick ==
    /\ screen = "console"
    /\ \E m \in Moves : selectedMove' = m
    /\ UNCHANGED <<rmVars, fiVars, tvVars>>
    /\ UNCHANGED <<winThresholds, gameEnded, winningTeam, teamLeaderRotation,
                   currentTeamLeaderIndex, lastSelectedPlayer,
                   completedFirstRound, teamLeader, chosenPlayer, aiMove,
                   suggestedMove, playerMove, gameResult, gameScore,
                   votingActive, votingComplete, screen, selectedPlayer,
                   finalMove, pendingBattles, analysisOverlays, rpsError>>

\* shouldVote of the confirm-selections handler, with Math.random() = r/RandDen.
shouldVoteAnyRound(r) ==
    Len(players) >= 5 /\ RandomBelow03(r)

shouldVote(r) ==
    completedFirstRound /\ Len(players) >= 5 /\ RandomBelow03(r)

\* voters of showTeamVoting(): the players other than the Team Leader.
votersEveryone ==
    {q \in 0..(Len(players) - 1) : TRUE}

voters ==
    {q \in 0..(Len(players) - 1) : q # teamLeader}

\* showTeamVoting(): the Map is cleared, the flags are set, every challenge
\* overlay gives way to the Team Vote overlay, and castVote's closure
\* starts with votesCast = 0 and totalVotes = voters.length.
showTeamVoting ==
    /\ rpsVotes' = <<>>
    /\ votingComplete' = FALSE
    /\ votingActive' = TRUE
    /\ votingOverlay' = TRUE
    /\ votesCast' = 0
    /\ totalVotes' = Cardinality(voters)
    /\ screen' = "teamVote"

\* confirm-selections-btn click: records actor and advice, removes every
\* challenge overlay, then either showTeamVoting() or showPlayerDecision().
confirmSelections ==
    /\ screen = "console"
    /\ selectedPlayer # null
    /\ selectedMove # "null"
    /\ chosenPlayer' = selectedPlayer
    /\ suggestedMove' = selectedMove
    /\ selectedPlayer' = null
    /\ selectedMove' = "null"
    /\ finalMove' = "null"
    /\ analysisOverlays' = 0
    /\ voteResult' = "null"
    /\ \E r \in RandomLevels :
         IF shouldVote(r)
         THEN showTeamVoting
         ELSE /\ screen' = "decision"
              /\ votingOverlay' = FALSE
              /\ UNCHANGED <<votingActive, votingComplete, rpsVotes, votesCast,
                             totalVotes>>
    /\ UNCHANGED <<rmVars, fiVars, resultTimers>>
    /\ UNCHANGED <<winThresholds, gameEnded, winningTeam, teamLeaderRotation,
                   currentTeamLeaderIndex, lastSelectedPlayer,
                   completedFirstRound, teamLeader, aiMove, playerMove,
                   gameResult, gameScore, pendingBattles, rpsError>>

\* Click on a .final-move of the decision overlay (it stays in the document,
\* and clickable, until 2.5 s after the first Confirm Choice click).
finalMoveClick ==
    /\ screen = "decision"
    /\ \E m \in Moves : finalMove' = m
    /\ UNCHANGED <<rmVars, fiVars, tvVars>>
    /\ UNCHANGED <<winThresholds, gameEnded, winningTeam, teamLeaderRotation,
                   currentTeamLeaderIndex, lastSelectedPlayer,
                   completedFirstRound, teamLeader, chosenPlayer, aiMove,
                   suggestedMove, playerMove, gameResult, gameScore,
                   votingActive, votingComplete, screen, selectedPlayer,
                   selectedMove, pendingBattles, analysisOverlays, rpsError>>

\* confirm-choice-btn click, up to its first await: the handler has no
\* re-entry guard, so every click while the overlay is in the document
\* starts one more run towards showDeceptionAnalysis().
confirmChoice ==
    /\ screen = "decision"
    /\ finalMove # "null"
    /\ pendingBattles < MaxConfirmClicks
    /\ (determineWinner(finalMove, aiMove) = "tie"
          => gameScore.ties + pendingBattles < MaxTies)
    /\ playerMove' = finalMove
    /\ pendingBattles' = pendingBattles + 1
    /\ UNCHANGED <<rmVars, fiVars, tvVars>>
    /\ UNCHANGED <<winThresholds, gameEnded, winningTeam, teamLeaderRotation,
                   currentTeamLeaderIndex, lastSelectedPlayer,
                   completedFirstRound, teamLeader, chosenPlayer, aiMove,
                   suggestedMove, gameResult, gameScore, votingActive,
                   votingComplete, screen, selectedPlayer, selectedMove,
                   finalMove, analysisOverlays, rpsError>>

\* The pauses of the confirm-choice handler run out: the decision overlay is
\* removed, the transition and battle overlays (z-index above every
\* challenge overlay) cover the screen, and
\* this.gameResult = determineWinner(this.playerMove, this.aiMove).
startBattleWithAdvice ==
    /\ screen = "decision"
    /\ pendingBattles >= 1
    /\ gameResult' = determineWinner(suggestedMove, aiMove)
    /\ finalMove' = "null"
    /\ screen' = "battle"
    /\ UNCHANGED <<rmVars, fiVars, tvVars>>
    /\ UNCHANGED <<winThresholds, gameEnded, winningTeam, teamLeaderRotation,
                   currentTeamLeaderIndex, lastSelectedPlayer,
                   completedFirstRound, teamLeader, chosenPlayer, aiMove,
                   suggestedMove, playerMove, gameScore, votingActive,
                   votingComplete, selectedPlayer, selectedMove,
                   pendingBattles, analysisOverlays, rpsError>>

startBattle ==
    /\ screen = "decision"
    /\ pendingBattles >= 1
    /\ gameResult' = determineWinner(playerMove, aiMove)
    /\ finalMove' = "null"
    /\ screen' = "battle"
    /\ UNCHANGED <<rmVars, fiVars, tvVars>>
    /\ UNCHANGED <<winThresholds, gameEnded, winningTeam, teamLeaderRotation,
                   currentTeamLeaderIndex, lastSelectedPlayer,
                   completedFirstRound, teamLeader, chosenPlayer, aiMove,
                   suggestedMove, playerMove, gameScore, votingActive,
                   votingComplete, selectedPlayer, selectedMove,
                   pendingBattles, analysisOverlays, rpsError>>

\* The counters after showDeceptionAnalysis() has applied `result`; coin is
\* the Math.random() < 0.5 of the third tie.
ScoreAfterTransfer(score, result, coin) ==
    IF result = "player" THEN [score EXCEPT !.goodTeam = @ + 1]
    ELSE IF result = "ai" THEN [score EXCEPT !.badTeam = @ + 1]
    ELSE LET t == [score EXCEPT !.ties = @ + 1]
         IN IF t.ties = 3
            THEN IF coin THEN [t EXCEPT !.goodTeam = @ + 1, !.badTeam = @ - 1]
                 ELSE [t EXCEPT !.badTeam = @ + 1, !.goodTeam = @ - 1]
            ELSE IF t.ties = 4 THEN [t EXCEPT !.goodTeam = @ + 1]
            ELSE t

ScoreAfterFromFour(score, result, coin) ==
    IF result = "player" THEN [score EXCEPT !.goodTeam = @ + 1]
    ELSE IF result = "ai" THEN [score EXCEPT !.badTeam = @ + 1]
    ELSE LET t == [score EXCEPT !.ties = @ + 1]
         IN IF t.ties = 3
            THEN IF coin THEN [t EXCEPT !.goodTeam = @ + 1]
                 ELSE [t EXCEPT !.badTeam = @ + 1]
            ELSE IF t.ties >= 4 THEN [t EXCEPT !.goodTeam = @ + 1]
            ELSE t

ScoreAfter(score, result, coin) ==
    IF result = "player" THEN [score EXCEPT !.goodTeam = @ + 1]
    ELSE IF result = "ai" THEN [score EXCEPT !.badTeam = @ + 1]
    ELSE LET t == [score EXCEPT !.ties = @ + 1]
         IN IF t.ties = 3
            THEN IF coin THEN [t EXCEPT !.goodTeam = @ + 1]
                 ELSE [t EXCEPT !.badTeam = @ + 1]
            ELSE IF t.ties = 4 THEN [t EXCEPT !.goodTeam = @ + 1]
            ELSE t

\* End of one battle animation: showDeceptionAnalysis() updates the score,
\* then the victory screen or the TURN OVER overlay of
\* showRegularTurnAnalysis().  A victory overlay (z-index 20000) stays on top
\* of any TURN OVER overlay appended later.
showDeceptionAnalysis ==
    /\ screen \in {"battle", "analysis", "victory"}
    /\ pendingBattles >= 1
    /\ pendingBattles' = pendingBattles - 1
    /\ \E r \in RandomLevels :
         gameScore' = ScoreAfter(gameScore, gameResult, RandomBelow05(r))
    /\ LET c == checkWinConditions(gameScore')
       IN /\ gameEnded' = c.gameEnded
          /\ winningTeam' = c.winningTeam
          /\ IF c.ret
             THEN /\ screen' = "victory"
                  /\ analysisOverlays' = 0
             ELSE /\ screen' = IF screen = "victory" THEN "victory" ELSE "analysis"
                  /\ analysisOverlays' = analysisOverlays + 1
    /\ UNCHANGED <<rmVars, fiVars, tvVars>>
    /\ UNCHANGED <<winThresholds, teamLeaderRotation, currentTeamLeaderIndex,
                   lastSelectedPlayer, completedFirstRound, teamLeader,
                   chosenPlayer, aiMove, suggestedMove, playerMove, gameResult,
                   votingActive, votingComplete, selectedPlayer, selectedMove,
                   finalMove, rpsError>>

\* cont-ana-btn click: the overlay goes and completeTurn() records the
\* actor, advances the pointer and calls nextTeamLeaderTurn().  With two
\* TURN OVER overlays in the document the handler sits on the covered one
\* (getElementById returns the first), so the button on top does nothing.
completeTurn ==
    /\ screen = "analysis"
    /\ pendingBattles = 0
    /\ analysisOverlays = 1
    /\ lastSelectedPlayer' = chosenPlayer
    /\ currentTeamLeaderIndex' =
         (currentTeamLeaderIndex + 1) % Len(teamLeaderRotation)
    /\ nextTeamLeaderTurn((currentTeamLeaderIndex + 1) % Len(teamLeaderRotation),
                          teamLeaderRotation, analysisOverlays - 1)
    /\ UNCHANGED <<rmVars, fiVars, tvVars>>
    /\ UNCHANGED <<winThresholds, teamLeaderRotation, completedFirstRound,
                   chosenPlayer, aiMove, suggestedMove, playerMove, gameResult,
                   gameScore, votingActive, votingComplete, selectedPlayer,
                   selectedMove, finalMove, pendingBattles, rpsError>>

\* castVote's early return: the vote is closed or every vote is in.
castVoteReturnsNever ==
    FALSE

castVoteReturns ==
    ~votingActive \/ votesCast >= totalVotes

\* vote-yes-btn / vote-no-btn click: castVote(voteValue).  The last vote
\* closes the vote and schedules processVoteResult() 500 ms later; the
\* Team Vote overlay stays on display until then.
castVote ==
    /\ screen = "teamVote"
    /\ \E voteValue \in BOOLEAN :
         IF castVoteReturns
         THEN UNCHANGED <<rpsVotes, votesCast, votingActive, votingComplete,
                          resultTimers>>
         ELSE /\ rpsVotes' = MapSet(rpsVotes, votesCast, voteValue)
              /\ votesCast' = votesCast + 1
              /\ IF votesCast + 1 >= totalVotes /\ votingActive
                 THEN /\ votingActive' = FALSE
                      /\ votingComplete' = TRUE
                      /\ resultTimers' = resultTimers + 1
                 ELSE UNCHANGED <<votingActive, votingComplete, resultTimers>>
    /\ UNCHANGED <<rmVars, fiVars, totalVotes, votingOverlay, voteResult>>
    /\ UNCHANGED <<winThresholds, gameEnded, winningTeam, teamLeaderRotation,
                   currentTeamLeaderIndex, lastSelectedPlayer,
                   completedFirstRound, teamLeader, chosenPlayer, aiMove,
                   suggestedMove, playerMove, gameResult, gameScore, screen,
                   selectedPlayer, selectedMove, finalMove, pendingBattles,
                   analysisOverlays, rpsError>>

\* const majority of processVoteResult.
majorityHalf(total) ==
    (total + 1) \div 2

majority(total) ==
    (total \div 2) + 1

\* yesVotes and noVotes of processVoteResult: the pass over this.votes.
yesVotes(map) == Cardinality({i \in 1..Len(map) : map[i].value})
noVotes(map) == Cardinality({i \in 1..Len(map) : ~map[i].value})

\* The 500 ms timer of castVote runs out: processVoteResult() and, unless
\* it returns early, showVoteResult() with its APPROVED / BLOCKED overlay.
processVoteResult ==
    /\ resultTimers > 0
    /\ resultTimers' = resultTimers - 1
    /\ IF ~votingComplete \/ ~votingOverlay
       THEN UNCHANGED <<votingOverlay, votingActive, votingComplete,
                        voteResult, screen>>
       ELSE LET total == yesVotes(rpsVotes) + noVotes(rpsVotes)
            IN /\ votingOverlay' = FALSE
               /\ votingActive' = FALSE
               /\ votingComplete' = FALSE
               /\ voteResult' = IF yesVotes(rpsVotes) >= majority(total)
                                THEN "yes" ELSE "no"
               /\ screen' = "voteResult"
    /\ UNCHANGED <<rmVars, fiVars, rpsVotes, votesCast, totalVotes>>
    /\ UNCHANGED <<winThresholds, gameEnded, winningTeam, teamLeaderRotation,
                   currentTeamLeaderIndex, lastSelectedPlayer,
                   completedFirstRound, teamLeader, chosenPlayer, aiMove,
                   suggestedMove, playerMove, gameResult, gameScore,
                   selectedPlayer, selectedMove, finalMove, pendingBattles,
                   analysisOverlays, rpsError>>

\* The test of the continue-vote-btn handler: result === 'yes'.
voteApprovedInverted(result) ==
    result = "no"

voteApproved(result) ==
    result = "yes"

\* continue-vote-btn click: the result overlay goes; an approved actor gets
\* showPlayerDecision(), a blocked one sends the leader back to
\* startRockPaperScissors().
continueVote ==
    /\ screen = "voteResult"
    /\ voteResult' = "null"
    /\ IF voteApproved(voteResult)
       THEN /\ screen' = "decision"
            /\ finalMove' = "null"
            /\ UNCHANGED <<aiMove, selectedPlayer, selectedMove>>
       ELSE /\ \E r \in RandomLevels :
                 aiMove' = MovesArray[FloorRandom(r, 3) + 1]
            /\ selectedPlayer' = IF Cardinality(availablePlayers) = 1
                                 THEN CHOOSE q \in availablePlayers : TRUE
                                 ELSE null
            /\ selectedMove' = "null"
            /\ screen' = "console"
            /\ UNCHANGED finalMove
    /\ UNCHANGED <<rmVars, fiVars, rpsVotes, votesCast, totalVotes,
                   votingOverlay, resultTimers>>
    /\ UNCHANGED <<winThresholds, gameEnded, winningTeam, teamLeaderRotation,
                   currentTeamLeaderIndex, lastSelectedPlayer,
                   completedFirstRound, teamLeader, chosenPlayer, suggestedMove,
                   playerMove, gameResult, gameScore, votingActive,
                   votingComplete, pendingBattles, analysisOverlays, rpsError>>

\* What the overlay on display interpolates from the duel's fields, with
\* engineMove standing for this.aiMove: the introduction, the leader call of
\* selectTeamLeader, the Team Leader's console of startRockPaperScissors
\* (its "AI Secret Move" line prints this.aiMove), the actor's decision
\* overlay and the team-vote overlay.  Later overlays come after the reveal.
ScreenContentOnDecision(engineMove) ==
    CASE screen = "intro" -> <<Len(players), gameScore, winThresholds>>
      [] screen = "leader" -> <<teamLeader, gameScore, winThresholds>>
      [] screen = "console" ->
           <<engineMove, teamLeader, lastSelectedPlayer, selectedPlayer, selectedMove>>
      [] screen = "decision" -> <<engineMove, chosenPlayer, suggestedMove, finalMove>>
      [] screen = "teamVote" -> <<chosenPlayer, Len(players)>>
      [] OTHER -> <<>>

ScreenContent(engineMove) ==
    CASE screen = "intro" -> <<Len(players), gameScore, winThresholds>>
      [] screen = "leader" -> <<teamLeader, gameScore, winThresholds>>
      [] screen = "console" ->
           <<engineMove, teamLeader, lastSelectedPlayer, selectedPlayer, selectedMove>>
      [] screen = "decision" -> <<chosenPlayer, suggestedMove, finalMove>>
      [] screen = "teamVote" -> <<chosenPlayer, Len(players)>>
      [] OTHER -> <<>>

\* The roster the duel finds in RoleManager.players after a completed role
\* assignment of n players.
RevealedRosters(n) ==
    { [i \in 1..n |-> [roster[i] EXCEPT !.hasReceived = TRUE]] :
        roster \in { LabelledRoster(RosterOf(n), badIdx) :
                       badIdx \in { [k \in 1..BadPlayerCount(n) |-> k - 1] } } }

\* Role assignment of n players has completed and the duel object has just
\* been constructed.
DuelInit(counts) ==
    /\ \E n \in counts :
         /\ playersData = RosterOf(n)
         /\ players \in RevealedRosters(n)
         /\ currentPlayerIndex = n
         /\ knowEachOther = BadPlayersKnowEachOther(n)
    /\ isAssigningRoles = FALSE
    /\ rmScreen = "complete"
    /\ rmError = FALSE
    /\ InstructionsOver
    /\ GridConfirmed
    /\ DuelConstructed
    /\ FiConstructed

Init == DuelInit(DuelPlayerCounts)

Next ==
    \/ init
    \/ beginChallenge
    \/ startRockPaperScissors
    \/ teammateOptionClick
    \/ moveSuggestionClick
    \/ confirmSelections
    \/ finalMoveClick
    \/ confirmChoice
    \/ startBattle
    \/ showDeceptionAnalysis
    \/ completeTurn

Spec == Init /\ [][Next]_vars

\* The duel of every player count, followed through its first turn.
InitOpening == DuelInit(3..8)

NoPointYet == gameScore.goodTeam + gameScore.badTeam + gameScore.ties = 0

NextOpening ==
    \/ init
    \/ beginChallenge
    \/ startRockPaperScissors /\ NoPointYet
    \/ teammateOptionClick
    \/ moveSuggestionClick
    \/ confirmSelections
    \/ finalMoveClick
    \/ confirmChoice
    \/ startBattle
    \/ showDeceptionAnalysis
    \/ completeTurn

SpecOpening == InitOpening /\ [][NextOpening]_vars

\* The suspicion vote, from the end of role assignment to the duel's
\* introduction.
VotePlayerCounts == {3, 4, 5}

InitVote == DuelInit(VotePlayerCounts)

NextVote ==
    \/ fiInit
    \/ beginImpressions
    \/ readyToVote
    \/ recordVote
    \/ voteConfirmationTimer
    \/ votingCompleteTimer
    \/ init

SpecVote == InitVote /\ [][NextVote]_vars

\* The session from the end of role assignment: the suspicion vote, then the
\* duel followed through its first turn.
SessionPlayerCounts == {3}

InitSession == DuelInit(SessionPlayerCounts)

NextSession ==
    \/ fiInit
    \/ beginImpressions
    \/ readyToVote
    \/ recordVote
    \/ voteConfirmationTimer
    \/ votingCompleteTimer
    \/ init
    \/ beginChallenge
    \/ startRockPaperScissors /\ NoPointYet
    \/ teammateOptionClick
    \/ moveSuggestionClick
    \/ confirmSelections
    \/ finalMoveClick
    \/ confirmChoice
    \/ startBattle
    \/ showDeceptionAnalysis
    \/ completeTurn

SpecSession == InitSession /\ [][NextSession]_vars

\* A whole session up to the duel's introduction: role assignment and reveal,
\* then the suspicion vote or (skip-voting setting) the duel at once.
PhasePlayerCounts == {3, 4}

NextPhases ==
    \/ startRoleAssignment /\ Len(playersData') \in PhasePlayerCounts
    \/ skipInstructions
    \/ narrationSpoken
    \/ pauseElapsed
    \/ readyClick
    \/ continueClick
    \/ finishClick
    \/ fiInit
    \/ beginImpressions
    \/ readyToVote
    \/ recordVote
    \/ voteConfirmationTimer
    \/ votingCompleteTimer
    \/ init
    \/ beginChallenge

SpecPhases == RolesInit /\ [][NextPhases]_vars

\* ------------------------------------------ colour selection and play again
\* checkColorSelectionComplete: every player of the grid has a colour.
allSelected ==
    /\ Len(selectedColors) > 0
    /\ \A i \in 1..Len(selectedColors) : selectedColors[i] # null

\* The handler of a .color-option: the colour is held by another player.
alreadySelected(playerIdx, color) ==
    \E idx \in 1..Len(selectedColors) :
        selectedColors[idx] = color /\ idx # playerIdx

\* validateGameSetup(playerCount, playersData): count within 2..8, one record
\* per player, no colour twice (the names of the model are never empty).
validateGameSetup(playerCount, roster) ==
    /\ ~(playerCount < 2 \/ playerCount > 8)
    /\ Len(roster) = playerCount
    /\ Cardinality({roster[i].color : i \in 1..Len(roster)}) = Len(roster)

\* playerData of confirmHandler, from the grid's playerNames and selectedColors.
gridPlayerData ==
    [i \in 1..Len(selectedColors) |->
        [name |-> 100 + i, color |-> selectedColors[i]]]

\* playersData of the confirm handler of manualSetupColorSelection.
replayPlayersData ==
    [i \in 1..Len(replayColors) |->
        [name |-> players[i].name, color |-> replayColors[i]]]

ColorPlayerCounts == {3}

\* setupColorSelection(playerCount) on a page just loaded: an empty grid and
\* a hidden confirm button.
setupColorSelection ==
    /\ colorScreen = "none"
    /\ rmScreen = "none"
    /\ ~rmError
    /\ \E playerCount \in ColorPlayerCounts :
         selectedColors' = [i \in 1..playerCount |-> null]
    /\ colorScreen' = "grid"
    /\ UNCHANGED <<replayColors, disabledOptions, confirmDisabled>>
    /\ UNCHANGED <<roleVars, duelVars, fiVars, tvVars>>

\* Click on a .color-option of the grid: refused when another player holds
\* the colour, else it becomes the player's colour.
colorOptionClick ==
    /\ colorScreen = "grid"
    /\ \E playerIdx \in 1..Len(selectedColors), color \in colors :
         IF alreadySelected(playerIdx, color)
         THEN UNCHANGED selectedColors
         ELSE selectedColors' = [selectedColors EXCEPT ![playerIdx] = color]
    /\ UNCHANGED <<colorScreen, replayColors, disabledOptions, confirmDisabled>>
    /\ UNCHANGED <<roleVars, duelVars, fiVars, tvVars>>

\* Play Again With Same Players on the victory overlay: the overlay goes and
\* manualSetupColorSelection(savedPlayers) fills the grid with one dropdown
\* per saved player (the players array as savePlayerDataForReplay stored it),
\* every option enabled, and enables the confirm button.
playAgainSameClick ==
    /\ screen = "victory"
    /\ colorScreen = "none"
    /\ screen' = "none"
    /\ colorScreen' = "dropdown"
    /\ replayColors' = [i \in 1..Len(players) |-> players[i].color]
    /\ disabledOptions' = [i \in 1..Len(players) |-> {}]
    /\ confirmDisabled' = FALSE
    /\ UNCHANGED <<selectedColors, roleVars, fiVars, tvVars>>
    /\ UNCHANGED <<winThresholds, gameEnded, winningTeam, teamLeaderRotation,
                   currentTeamLeaderIndex, lastSelectedPlayer,
                   completedFirstRound, teamLeader, chosenPlayer, aiMove,
                   suggestedMove, playerMove, gameResult, gameScore,
                   votingActive, votingComplete, selectedPlayer, selectedMove,
                   finalMove, pendingBattles, analysisOverlays, rpsError>>

\* change event of a dropdown: the player's entry takes the chosen colour
\* with no test against the other players, then every dropdown disables the
\* options held by another player, except its own value.
dropdownChange ==
    /\ colorScreen = "dropdown"
    /\ \E playerIndex \in 1..Len(replayColors) :
         \E color \in (colors \ disabledOptions[playerIndex])
                          \ {replayColors[playerIndex]} :
            /\ replayColors' = [replayColors EXCEPT ![playerIndex] = color]
            /\ disabledOptions' =
                 [s \in 1..Len(replayColors) |->
                    {c \in colors :
                       /\ \E idx \in 1..Len(replayColors) :
                             idx # s /\ replayColors'[idx] = c
                       /\ c # replayColors'[s]}]
    /\ UNCHANGED <<colorScreen, selectedColors, confirmDisabled>>
    /\ UNCHANGED <<roleVars, duelVars, fiVars, tvVars>>

\* The guard of the confirm handler of manualSetupColorSelection.
replayConfirmProceedsAlways(clicked, disabled) ==
    TRUE

replayConfirmProceeds(clicked, disabled) ==
    ~(clicked \/ disabled)

\* Click on the confirm-colors button.  Its listeners run in the order they
\* were registered: confirmHandler of setupColorSelection (addEventListener,
\* registered when the page's first game was set up), then the onclick
\* handler of manualSetupColorSelection when the dropdowns are shown.
\* confirmHandler disables the button and starts the game (setupGame with
\* its validateGameSetup, then startRoleAssignment) with the grid's own
\* playerData; the onclick handler returns when it finds the button
\* disabled, else it runs resetForReplay and startRoleAssignment with the
\* dropdowns' roster.
confirmColorsClick ==
    /\ colorScreen \in {"grid", "dropdown"}
    /\ ~confirmDisabled
    /\ allSelected
    /\ confirmDisabled' = TRUE
    /\ colorScreen' = "none"
    /\ replayColors' = <<>>
    /\ disabledOptions' = <<>>
    /\ IF colorScreen = "dropdown" /\ replayConfirmProceeds(FALSE, confirmDisabled')
       THEN /\ firstImpressions' = <<>>
            /\ beginRoleAssignment(replayPlayersData)
       ELSE /\ UNCHANGED firstImpressions
            /\ IF validateGameSetup(Len(selectedColors), gridPlayerData)
               THEN beginRoleAssignment(gridPlayerData)
               ELSE UNCHANGED roleVars
    /\ UNCHANGED <<selectedColors, fiCurrentPlayerIndex, votes, fiScreen>>
    /\ UNCHANGED <<duelVars, tvVars>>

\* A session from the first duel's construction through its victory screen
\* and Play Again With Same Players into the next game.  The voting scene is
\* skipped, the page has no voice manager (role assignment opens on the first
\* call screen), and the duel is steered along one line of play (engine rock,
\* advice rock, one confirm click) so that the games stay short.
ReplayPlayerCounts == {3}

InitReplay == DuelInit(ReplayPlayerCounts)

NextReplay ==
    \/ init
    \/ beginChallenge
    \/ startRockPaperScissors /\ aiMove' = "rock"
    \/ teammateOptionClick
    \/ moveSuggestionClick /\ selectedMove' = "rock"
    \/ confirmSelections
    \/ finalMoveClick /\ finalMove' \in {"paper", "scissors"}
    \/ confirmChoice /\ pendingBattles' = 1
    \/ startBattle
    \/ showDeceptionAnalysis
    \/ completeTurn
    \/ playAgainSameClick
    \/ dropdownChange
    \/ confirmColorsClick /\ rmScreen' = "call"
    \/ readyClick
    \/ continueClick
    \/ finishClick

SpecReplay == InitReplay /\ [][NextReplay]_vars

\* A page just loaded: the colour grid, then role assignment.
NextSetup ==
    \/ setupColorSelection
    \/ colorOptionClick
    \/ confirmColorsClick
    \/ skipInstructions
    \/ narrationSpoken
    \/ pauseElapsed
    \/ readyClick
    \/ continueClick
    \/ finishClick

SpecSetup == RolesInit /\ [][NextSetup]_vars

\* The intervention vote on its own.  The running duel never calls
\* showTeamVoting() (shouldVote needs completedFirstRound, which nothing
\* sets), so the method and the handlers it installs are exercised from the
\* point of the call: the confirm-selections handler of the second turn has
\* recorded actor and advice and cleared the screen.  The first turn gave
\* one team a point and, as in the code, left completedFirstRound false.
TeamVotePlayerCounts == {5, 6}

InitTeamVote ==
    /\ \E n \in TeamVotePlayerCounts :
         /\ playersData = RosterOf(n)
         /\ players \in {convertRolesToTeams(roster) : roster \in RevealedRosters(n)}
         /\ currentPlayerIndex = n
         /\ knowEachOther = BadPlayersKnowEachOther(n)
         /\ winThresholds = setWinThresholds(n)
         /\ teamLeaderRotation \in shuffleArray([k \in 1..n |-> k - 1])
    /\ isAssigningRoles = FALSE
    /\ rmScreen = "complete"
    /\ rmError = FALSE
    /\ InstructionsOver
    /\ GridConfirmed
    /\ FiConstructed
    /\ gameEnded = FALSE
    /\ winningTeam = "undefined"
    /\ currentTeamLeaderIndex = 1
    /\ teamLeader = teamLeaderRotation[2]
    /\ lastSelectedPlayer \in (0..(Len(players) - 1)) \ {teamLeaderRotation[1]}
    /\ chosenPlayer \in availablePlayers
    /\ completedFirstRound = FALSE
    /\ aiMove \in Moves
    /\ suggestedMove \in Moves
    /\ playerMove = "rock"
    /\ gameResult \in {"player", "ai"}
    /\ gameScore = [goodTeam |-> IF gameResult = "player" THEN 1 ELSE 0,
                    badTeam |-> IF gameResult = "ai" THEN 1 ELSE 0,
                    ties |-> 0]
    /\ votingActive = FALSE
    /\ votingComplete = FALSE
    /\ screen = "blank"
    /\ selectedPlayer = null
    /\ selectedMove = "null"
    /\ finalMove = "null"
    /\ pendingBattles = 0
    /\ analysisOverlays = 0
    /\ rpsError = FALSE
    /\ rpsVotes = <<>>
    /\ votesCast = 0
    /\ totalVotes = 0
    /\ votingOverlay = FALSE
    /\ resultTimers = 0
    /\ voteResult = "null"

\* The call of showTeamVoting().
showTeamVotingCalled ==
    /\ screen = "blank"
    /\ showTeamVoting
    /\ UNCHANGED <<rmVars, fiVars, resultTimers, voteResult>>
    /\ UNCHANGED <<winThresholds, gameEnded, winningTeam, teamLeaderRotation,
                   currentTeamLeaderIndex, lastSelectedPlayer,
                   completedFirstRound, teamLeader, chosenPlayer, aiMove,
                   suggestedMove, playerMove, gameResult, gameScore,
                   selectedPlayer, selectedMove, finalMove, pendingBattles,
                   analysisOverlays, rpsError>>

NextTeamVote ==
    \/ showTeamVotingCalled
    \/ castVote
    \/ processVoteResult
    \/ continueVote

SpecTeamVote == InitTeamVote /\ [][NextTeamVote]_vars

\* ------------------------------------------------------ suspicion-vote claims
\* C11: no entry of the vote map, and none of the stored copy, has the voter
\* as its suspect.
C11_NoSelfVote ==
    /\ \A i \in 1..Len(votes) : votes[i].key # votes[i].value
    /\ firstImpressions # <<>> =>
          \A i \in 1..Len(firstImpressions[1].votes) :
             firstImpressions[1].votes[i].key # firstImpressions[1].votes[i].value

\* Five players have all voted.
C11_Witness ==
    /\ Len(players) = 5
    /\ Len(votes) = 5
    /\ fiScreen = "complete"

\* The players' identities in the order of the shared array.
PlayerOrder == [i \in 1..Len(players) |-> players[i].index]

\* The number of players that have voted, by the screen and the index.
VotesExpected ==
    CASE fiScreen \in {"none", "instructions"} -> 0
      [] fiScreen \in {"call", "voting"} -> fiCurrentPlayerIndex
      [] fiScreen = "confirmation" -> fiCurrentPlayerIndex + 1
      [] OTHER -> Len(players)

VotePhaseInOrder ==
    /\ Len(votes) = VotesExpected
    /\ \A i \in 1..Len(votes) : votes[i].key = i - 1
    /\ fiScreen \in {"call", "voting", "confirmation"} =>
          fiCurrentPlayerIndex \in 0..(Len(players) - 1)
    /\ fiScreen \in {"complete", "done"} <=> firstImpressions # <<>>
    /\ fiScreen \in {"complete", "done"} =>
          /\ fiCurrentPlayerIndex = Len(players)
          /\ Len(votes) = Len(players)

\* C12: the players vote one after the other in the order of the array as
\* shuffled once by init(); after k of them have voted the map holds the k
\* entries of the first k players, one each; the phase completes only with
\* one entry per player; and no step after init() reorders the array.
C12_EachVotesOnce ==
    [][/\ VotePhaseInOrder'
       /\ fiScreen # "none" => PlayerOrder' = PlayerOrder
      ]_vars

\* The shuffle has reordered five players, three of them have voted and the
\* fourth is being called.
C12_Witness ==
    /\ Len(players) = 5
    /\ PlayerOrder # <<0, 1, 2, 3, 4>>
    /\ fiScreen = "call"
    /\ Len(votes) = 3
    /\ fiCurrentPlayerIndex = 3

\* C13: every entry of the vote map stays in its place with its voter and
\* its suspect in every later step of the session.
C13_AppendOnly ==
    [][\A i \in 1..Len(votes) : i <= Len(votes') /\ votes'[i] = votes[i]]_vars

\* All three votes are cast and the duel's first turn has been resolved.
C13_Witness ==
    /\ Len(votes) = 3
    /\ screen = "analysis"

\* Brute-force tally of the vote map.
VotesAgainst(suspect) ==
    Cardinality({i \in 1..Len(votes) : votes[i].value = suspect})

Suspects == {votes[i].value : i \in 1..Len(votes)}

TopSuspects ==
    {x \in Suspects : \A y \in Suspects : VotesAgainst(x) >= VotesAgainst(y)}

FirstNamed(suspect) ==
    CHOOSE i \in 1..Len(votes) :
       /\ votes[i].value = suspect
       /\ \A j \in 1..(i - 1) : votes[j].value # suspect

\* C14: the stored mostSuspected is the suspect with the most votes, among
\* several such the one named first in voter order, and the stored counts
\* are, for exactly the suspects named, the numbers of votes naming them.
C14_MostSuspected ==
    firstImpressions # <<>> =>
        /\ firstImpressions[1].mostSuspected \in TopSuspects
        /\ \A x \in TopSuspects :
              FirstNamed(firstImpressions[1].mostSuspected) <= FirstNamed(x)
        /\ {firstImpressions[1].suspicionCounts[i].key :
              i \in 1..Len(firstImpressions[1].suspicionCounts)} = Suspects
        /\ Len(firstImpressions[1].suspicionCounts) = Cardinality(Suspects)
        /\ \A i \in 1..Len(firstImpressions[1].suspicionCounts) :
              firstImpressions[1].suspicionCounts[i].value =
                 VotesAgainst(firstImpressions[1].suspicionCounts[i].key)

\* Two suspects share the maximum, and the one stored is neither the one of
\* lower index nor the one whose count reached the maximum first.
C14_Witness ==
    /\ firstImpressions # <<>>
    /\ Len(players) = 4
    /\ Cardinality(TopSuspects) = 2
    /\ \E x \in TopSuspects :
          /\ x < firstImpressions[1].mostSuspected
          /\ votes[Len(votes)].value = firstImpressions[1].mostSuspected

\* --------------------------------------------------------- reordering claim
\* The record of players with the given index, as
\* this.players.find(p => p.index === index) returns it.
FindByIndex(index) ==
    players[CHOOSE i \in 1..Len(players) :
               /\ players[i].index = index
               /\ \A j \in 1..(i - 1) : players[j].index # index]

\* C15: the array left by role assignment holds, in some order, exactly the
\* records labelled before the shuffle: the indices are 0..N-1, each once,
\* every record has the name, colour, role and partnerId it was given under
\* its index, and a partnerId looked up by index finds the Bad partner that
\* points back.
C15_ShufflePreservesIdentity ==
    RolesAssigned =>
        /\ Len(players) = Len(playersData)
        /\ {players[i].index : i \in 1..Len(players)} = 0..(Len(players) - 1)
        /\ \E badIdx \in BadDraws(Len(playersData),
                                  BadPlayerCount(Len(playersData)), <<>>) :
              \A i \in 1..Len(players) :
                 [players[i] EXCEPT !.hasReceived = FALSE] =
                    LabelledRoster(playersData, badIdx)[players[i].index + 1]
        /\ \A i \in 1..Len(players) :
              players[i].partnerId # null =>
                 /\ FindByIndex(players[i].partnerId).role = "Bad"
                 /\ FindByIndex(players[i].partnerId).partnerId = players[i].index
                 /\ FindByIndex(players[i].partnerId) # players[i]

\* Seven players reordered, a linked player and its partner both moved away
\* from the positions of their indices.
C15_Witness ==
    /\ RolesAssigned
    /\ Len(players) = 7
    /\ \E i \in 1..Len(players) :
          /\ players[i].partnerId # null
          /\ players[i].index # i - 1
          /\ players[players[i].partnerId + 1].index # players[i].partnerId

\* ------------------------------------------------------------- duel claims
\* The threshold table of the specification, by player count 3..8.
TableGood == <<4, 5, 5, 6, 7, 8>>
TableBad == <<3, 3, 4, 5, 5, 6>>

ThresholdReached ==
    \/ gameScore.goodTeam >= winThresholds.good
    \/ gameScore.badTeam >= winThresholds.bad

\* C4: once the duel is initialised, winThresholds is the table's entry for
\* the player count, in every state of every later step.
C4_ThresholdsPerTable ==
    IF screen = "none"
    THEN winThresholds = [good |-> 0, bad |-> 0]
    ELSE /\ Len(players) \in 3..8
         /\ winThresholds = [good |-> TableGood[Len(players) - 2],
                             bad  |-> TableBad[Len(players) - 2]]

\* A 7-player duel whose first turn has been resolved.
C4_Witness ==
    /\ Len(players) = 7
    /\ screen = "analysis"
    /\ winThresholds = [good |-> 7, bad |-> 5]

\* Standard rock-paper-scissors: x beats y.
Beats(x, y) ==
    <<x, y>> \in {<<"rock", "scissors">>, <<"scissors", "paper">>, <<"paper", "rock">>}

\* C5: the score changes in the resolution steps only, and every resolution
\* changes it as the standard rules say for the actor's move and the engine
\* move on the table: actor wins, goodTeam + 1 only; engine wins, badTeam
\* + 1 only; equal moves, ties + 1 and no team point unless the new tie
\* count is 3 or 4.
C5_Resolution ==
    [][/\ gameScore' # gameScore <=> pendingBattles' = pendingBattles - 1
       /\ pendingBattles' = pendingBattles - 1 =>
            /\ playerMove \in Moves /\ aiMove \in Moves
            /\ Beats(playerMove, aiMove) =>
                 gameScore' = [gameScore EXCEPT !.goodTeam = @ + 1]
            /\ Beats(aiMove, playerMove) =>
                 gameScore' = [gameScore EXCEPT !.badTeam = @ + 1]
            /\ playerMove = aiMove =>
                 /\ gameScore'.ties = gameScore.ties + 1
                 /\ gameScore'.ties \notin {3, 4} =>
                      gameScore' = [gameScore EXCEPT !.ties = @ + 1]
      ]_vars

\* A win of the actor, a win of the engine and a tie have all been scored.
C5_Witness ==
    /\ gameScore.goodTeam = 1 /\ gameScore.badTeam = 1 /\ gameScore.ties = 1
    /\ screen = "analysis"

C7_TerminalIsFinal ==
    [][gameEnded =>
         /\ gameEnded'
         /\ gameScore' = gameScore
         /\ winningTeam' = winningTeam
         /\ screen' = "victory"
      ]_vars

\* C8: no step lowers goodTeam, badTeam or ties.
C8_ScoreMonotone ==
    [][/\ gameScore'.goodTeam >= gameScore.goodTeam
       /\ gameScore'.badTeam >= gameScore.badTeam
       /\ gameScore'.ties >= gameScore.ties
      ]_vars

\* All three counters have grown, the third tie having given its bonus
\* point to the Bad team.
C8_Witness ==
    /\ gameScore.ties = 3
    /\ gameScore.badTeam = 2
    /\ gameScore.goodTeam = 1

\* C9: a tie that makes the count 3 gives exactly one team one point, a tie
\* that makes it 4 gives goodTeam one point, a tie that makes it anything
\* else gives no point, and a step that is no tie gives exactly one point.
C9_TieBonus ==
    [][gameScore' # gameScore =>
         LET dg == gameScore'.goodTeam - gameScore.goodTeam
             db == gameScore'.badTeam - gameScore.badTeam
             dt == gameScore'.ties - gameScore.ties
         IN /\ dt \in {0, 1}
            /\ dt = 1 /\ gameScore'.ties = 3 =>
                 <<dg, db>> \in {<<1, 0>>, <<0, 1>>}
            /\ dt = 1 /\ gameScore'.ties = 4 => <<dg, db>> = <<1, 0>>
            /\ dt = 1 /\ gameScore'.ties \notin {3, 4} => <<dg, db>> = <<0, 0>>
            /\ dt = 0 =>
                 /\ <<dg, db>> \in {<<1, 0>>, <<0, 1>>}
                 /\ playerMove # aiMove
      ]_vars

\* Eight ties and nothing else: the coin gave the third tie's point to the
\* Bad team, the fourth tie's point went to the Good team, and the ties 5
\* to 8 gave none.
C9_Witness ==
    /\ gameScore = [goodTeam |-> 1, badTeam |-> 1, ties |-> 8]
    /\ screen = "analysis"

\* The player selected on the console, and the actor once confirmed, is
\* neither the Team Leader nor lastSelectedPlayer.
ActorEligible ==
    /\ (screen = "console" /\ selectedPlayer # null) =>
          /\ selectedPlayer \in 0..(Len(players) - 1)
          /\ selectedPlayer # teamLeader
          /\ selectedPlayer # lastSelectedPlayer
    /\ screen \in {"decision", "battle", "analysis", "teamVote"} =>
          /\ chosenPlayer \in 0..(Len(players) - 1)
          /\ chosenPlayer # teamLeader
          /\ chosenPlayer # lastSelectedPlayer

\* C10: after every step the actor selected or confirmed is neither the
\* Team Leader nor lastSelectedPlayer, and the step that completes a turn
\* records an actor different from the one of the turn completed before.
C10_ActorEligible ==
    [][/\ ActorEligible'
       /\ currentTeamLeaderIndex' # currentTeamLeaderIndex =>
            /\ lastSelectedPlayer' = chosenPlayer
            /\ lastSelectedPlayer' # lastSelectedPlayer
            /\ lastSelectedPlayer' # teamLeader
      ]_vars

\* A second turn's actor has been confirmed while the first turn's actor is
\* recorded as lastSelectedPlayer.
C10_Witness ==
    /\ screen = "decision"
    /\ lastSelectedPlayer # null
    /\ chosenPlayer # lastSelectedPlayer
    /\ currentTeamLeaderIndex = 1

\* The screens on display before the actor has submitted the final move.
PreRevealScreens == {"intro", "leader", "console", "decision", "teamVote"}

\* C16 as claimed: on every screen before the reveal, the Team Leader's
\* console included, the content is the same whichever move the engine drew.
C16_EngineMoveHidden ==
    screen \in PreRevealScreens =>
        \A m \in Moves : ScreenContent(m) = ScreenContent(aiMove)

\* C16 as amended: on every screen before the reveal other than the Team
\* Leader's console the content is the same whichever move the engine drew,
\* and the console is on display only between the draw and the confirmation
\* of the leader's selections.
C16_EngineMoveHiddenFromOthers ==
    /\ screen \in PreRevealScreens \ {"console"} =>
          \A m \in Moves : ScreenContent(m) = ScreenContent(aiMove)
    /\ screen = "console" => aiMove \in Moves /\ pendingBattles = 0

\* The actor's decision screen is up, with an advice that is not the engine
\* move.
C16_Witness ==
    /\ screen = "decision"
    /\ aiMove = "paper"
    /\ suggestedMove = "rock"
    /\ finalMove = "scissors"

\* The role each player identity carries.
RoleByIndex == [k \in 0..(Len(players) - 1) |-> FindByIndex(k).role]

\* What checkWinConditions reads.
WinDeterminationInputs == <<gameScore, winThresholds, gameEnded, winningTeam>>

\* C17: no step of the suspicion vote or of the duel changes the role of any
\* player; a team, once written, is 'bad' for a Bad player and 'good'
\* otherwise; and the steps of the suspicion vote leave everything unchanged
\* that the win determination reads.
C17_RolesImmutable ==
    [][/\ RoleByIndex' = RoleByIndex
       /\ \A i \in 1..Len(players') :
             /\ players'[i].role \in {"Good", "Bad"}
             /\ players'[i].team # "unset" =>
                   players'[i].team = IF players'[i].role = "Bad" THEN "bad"
                                      ELSE "good"
       /\ screen' # "none" => \A i \in 1..Len(players') : players'[i].team # "unset"
       /\ fiVars' # fiVars => WinDeterminationInputs' = WinDeterminationInputs
      ]_vars

\* The vote has reordered the players, the Bad player was voted for, the
\* duel has converted the roles, and its first turn has given a point.
C17_Witness ==
    /\ Len(votes) = 3
    /\ PlayerOrder # <<0, 1, 2>>
    /\ \E i \in 1..Len(votes) : players[votes[i].value + 1].role = "Bad"
    /\ \E i \in 1..Len(players) : players[i].team = "bad" /\ players[i].index = 0
    /\ screen = "analysis"
    /\ gameScore.goodTeam = 1

\* C18: the counters change only in the first resolution of a turn, the one
\* that ends the battle screen: a turn's resolution is applied once.
C18_ScoreOncePerTurn ==
    [][gameScore' # gameScore => screen = "battle"]_vars

\* C19: in every state of the duel no counter is above its threshold, and once
\* the duel is terminal exactly one team's counter equals its threshold, the
\* other team's counter is below its own, and winningTeam names the former.
C19_ScoresWithinThresholds ==
    screen # "none" =>
        /\ gameScore.goodTeam <= winThresholds.good
        /\ gameScore.badTeam <= winThresholds.bad
        /\ ~(gameScore.goodTeam >= winThresholds.good
                /\ gameScore.badTeam >= winThresholds.bad)
        /\ gameEnded =>
              \/ /\ gameScore.goodTeam = winThresholds.good
                 /\ gameScore.badTeam < winThresholds.bad
                 /\ winningTeam = "good"
              \/ /\ gameScore.badTeam = winThresholds.bad
                 /\ gameScore.goodTeam < winThresholds.good
                 /\ winningTeam = "bad"

\* C20: a duel that has begun and is not terminal can always take a further
\* step, so that players who keep supplying the inputs bring it to the
\* terminal state: it is terminal or some step of it is enabled.
C20_TerminalOrProgress ==
    (screen # "none" /\ ~rpsError) => (gameEnded \/ ENABLED Next)

\* -------------------------------------------------- leader-rotation claim
\* Screens of a turn, from the call of its Team Leader to its TURN OVER.
TurnScreens == {"leader", "console", "teamVote", "decision", "battle", "analysis"}

\* The leaders of the n turns that start with the current one, should each
\* of them complete.
LeadersOfNextTurns ==
    LET n == Len(teamLeaderRotation)
    IN [j \in 1..n |->
          teamLeaderRotation[((currentTeamLeaderIndex + j - 1) % n) + 1]]

\* C21: from init() on, the rotation is a permutation of the N positions
\* and never changes; during a turn the Team Leader is
\* teamLeaderRotation[currentTeamLeaderIndex]; the pointer is 0 until the
\* first turn completes and changes only when a turn completes, to the next
\* value modulo N; so N consecutive turns are led by N different players.
C21_LeaderRotation ==
    [][/\ screen' # "none" =>
             /\ Len(teamLeaderRotation') = Len(players')
             /\ Range(teamLeaderRotation') = 0..(Len(players') - 1)
             /\ currentTeamLeaderIndex' \in 0..(Len(players') - 1)
             /\ Range(LeadersOfNextTurns') = 0..(Len(players') - 1)
       /\ screen # "none" => teamLeaderRotation' = teamLeaderRotation
       /\ screen' \in TurnScreens =>
             teamLeader' = teamLeaderRotation'[currentTeamLeaderIndex' + 1]
       /\ screen' \in {"none", "intro"} => currentTeamLeaderIndex' = 0
       /\ currentTeamLeaderIndex' # currentTeamLeaderIndex =>
             /\ screen = "analysis"
             /\ screen' = "leader"
             /\ lastSelectedPlayer' = chosenPlayer
             /\ currentTeamLeaderIndex' =
                   (currentTeamLeaderIndex + 1) % Len(players)
       /\ (screen = "analysis" /\ screen' = "leader") =>
             currentTeamLeaderIndex' # currentTeamLeaderIndex
      ]_vars

\* Three turns have completed in a duel of three whose rotation is not the
\* seating order: the pointer has wrapped around to the first leader.
C21_Witness ==
    /\ screen = "leader"
    /\ currentTeamLeaderIndex = 0
    /\ teamLeaderRotation = <<2, 0, 1>>
    /\ teamLeader = 2
    /\ gameScore.goodTeam + gameScore.badTeam + gameScore.ties = 3

\* ------------------------------------------------ intervention-vote claims
\* C22: a turn that completes without a win leaves completedFirstRound
\* true, and the flag, once true, stays true.
C22_FirstRoundMarked ==
    [][/\ (currentTeamLeaderIndex' # currentTeamLeaderIndex /\ ~gameEnded')
             => completedFirstRound'
       /\ completedFirstRound => completedFirstRound'
      ]_vars

\* An intervention vote is under way or its result is on display.
VotePhase ==
    \/ screen \in {"teamVote", "voteResult"}
    \/ votingActive
    \/ votingComplete
    \/ votingOverlay

\* C23: an intervention vote takes place only with completedFirstRound
\* true and at least 5 players, and never in the first turn of a duel (the
\* turn in which no actor has been recorded yet).
C23_VoteGate ==
    VotePhase =>
        /\ completedFirstRound
        /\ Len(players) >= 5
        /\ lastSelectedPlayer # null

\* The leader of the first turn of a 5-player duel has confirmed actor and
\* advice, and the actor's decision screen has followed without a vote.
C23_Witness ==
    /\ Len(players) = 5
    /\ lastSelectedPlayer = null
    /\ screen = "decision"
    /\ chosenPlayer # null
    /\ ~VotePhase

YesCast == {i \in 1..Len(rpsVotes) : rpsVotes[i].value = TRUE}

\* C25: the result on display is an approval exactly when the yes votes
\* are more than half of the votes cast; an even split and a minority of
\* yes votes block the actor.
C25_StrictMajority ==
    screen = "voteResult" =>
        /\ voteResult \in {"yes", "no"}
        /\ voteResult = "yes" <=> 2 * Cardinality(YesCast) > Len(rpsVotes)
        /\ 2 * Cardinality(YesCast) <= Len(rpsVotes) => voteResult = "no"

\* Four votes, two of them yes: the actor is blocked.
C25_Witness ==
    /\ screen = "voteResult"
    /\ Len(rpsVotes) = 4
    /\ Cardinality(YesCast) = 2
    /\ voteResult = "no"

\* C26: the Continue click on a BLOCKED result puts up the console of the
\* same Team Leader with an engine move drawn anew (each of the three moves
\* can come) and with neither actor nor advice selected, and changes
\* neither the score nor the leader pointer, lastSelectedPlayer or
\* gameEnded; the Continue click on an APPROVED result puts up the decision
\* screen of the actor the leader chose.
C26_VoteOutcomeStep ==
    [][(screen = "voteResult" /\ screen' # "voteResult") =>
          /\ teamLeader' = teamLeader
          /\ gameScore' = gameScore
          /\ currentTeamLeaderIndex' = currentTeamLeaderIndex
          /\ lastSelectedPlayer' = lastSelectedPlayer
          /\ gameEnded' = gameEnded
          /\ IF voteResult = "no"
             THEN /\ screen' = "console"
                  /\ aiMove' \in Moves
                  /\ \A m \in Moves : ENABLED (continueVote /\ aiMove' = m)
                  /\ selectedPlayer' = null
                  /\ selectedMove' = "null"
             ELSE /\ voteResult = "yes"
                  /\ screen' = "decision"
                  /\ chosenPlayer' = chosenPlayer
                  /\ suggestedMove' = suggestedMove
                  /\ aiMove' = aiMove
      ]_vars

\* A vote of one yes against three no has been continued: the leader is
\* back at the console with nothing selected.
C26_Witness ==
    /\ screen = "console"
    /\ Len(rpsVotes) = 4
    /\ Cardinality(YesCast) = 1
    /\ selectedPlayer = null
    /\ selectedMove = "null"
    /\ chosenPlayer # null

\* C27: in an intervention vote the votes recorded never outnumber the
\* voters; a click that comes after the last expected vote, while the
\* result timer runs, records nothing and starts no second timer; a
\* completed vote has exactly one result timer, the timer finds the vote
\* complete, and the result overlay is put up by that timer and by nothing
\* else, after which no timer is left.
C27_VoteProcessedOnce ==
    [][/\ Len(rpsVotes') <= totalVotes'
       /\ resultTimers' \in {0, 1}
       /\ votingComplete' <=> resultTimers' = 1
       /\ resultTimers' = 1 =>
             /\ votingOverlay'
             /\ ~votingActive'
             /\ screen' = "teamVote"
             /\ Len(rpsVotes') = totalVotes'
       /\ (screen = "teamVote" /\ Len(rpsVotes) = totalVotes) =>
             /\ rpsVotes' = rpsVotes
             /\ votesCast' = votesCast
             /\ resultTimers' <= resultTimers
       /\ (screen' = "voteResult" /\ screen # "voteResult") =>
             /\ resultTimers = 1
             /\ resultTimers' = 0
             /\ ~votingComplete'
       /\ (screen = "voteResult" /\ screen' # "voteResult") =>
             /\ screen' \in {"console", "decision"}
             /\ resultTimers' = 0
             /\ voteResult' = "null"
      ]_vars

\* Every vote of six players is in and the result timer runs: the Team
\* Vote overlay is still up and its buttons take further clicks.
C27_Witness ==
    /\ screen = "teamVote"
    /\ Len(players) = 6
    /\ votesCast = 5
    /\ Len(rpsVotes) = 5
    /\ resultTimers = 1
    /\ ENABLED castVote

\* ------------------------------------------------------ turn-order claims
\* The order of the steps of a turn, as pairs of consecutive screens:
\* leader announced, engine move drawn and console shown, selections
\* confirmed, optional vote and its result, actor's move, resolution, and
\* then the next leader or the victory screen.
StepOrder ==
    { <<"none", "intro">>, <<"intro", "leader">>, <<"leader", "console">>,
      <<"console", "teamVote">>, <<"console", "decision">>,
      <<"teamVote", "voteResult">>, <<"voteResult", "decision">>,
      <<"voteResult", "console">>, <<"decision", "battle">>,
      <<"battle", "analysis">>, <<"battle", "victory">>,
      <<"analysis", "leader">> }

\* C28: the screens of a turn follow one another in the order of its
\* steps; the actor's move is submitted only at the decision step, for a
\* confirmed actor and advice, and once submitted the step takes no further
\* submission; the score is resolved only from the battle that follows a
\* submitted move; and no more than one submission is in progress.
C28_StepOrder ==
    [][/\ screen' # screen => <<screen, screen'>> \in StepOrder
       /\ pendingBattles' > pendingBattles =>
             /\ screen = "decision"
             /\ chosenPlayer # null
             /\ suggestedMove \in Moves
             /\ pendingBattles = 0
       /\ playerMove' # playerMove => pendingBattles' > pendingBattles
       /\ gameScore' # gameScore =>
             /\ screen = "battle"
             /\ playerMove \in Moves
       /\ pendingBattles' <= 1
      ]_vars

\* The players who may act in the turn: neither its Team Leader nor the
\* actor of the preceding turn.
Eligible ==
    {q \in 0..(Len(players) - 1) : q # teamLeader /\ q # lastSelectedPlayer}

\* C29: at a console with exactly one eligible player that player is the
\* selected actor from the start, so that the leader can confirm as soon as
\* an advice move is chosen, and cannot before.
C29_LoneCandidateSelected ==
    (screen = "console" /\ Cardinality(Eligible) = 1) =>
        /\ selectedPlayer \in Eligible
        /\ selectedMove = "null" =>
              /\ ~ENABLED confirmSelections
              /\ ENABLED moveSuggestionClick
        /\ selectedMove \in Moves => ENABLED confirmSelections

\* The console of a second turn of three players: one player is eligible,
\* is selected, and no advice has been chosen yet.
C29_Witness ==
    /\ screen = "console"
    /\ Len(players) = 3
    /\ lastSelectedPlayer # null
    /\ Cardinality(Eligible) = 1
    /\ selectedPlayer \in Eligible
    /\ selectedMove = "null"

\* C30: at every console at least one player, and no fewer than all but
\* two, may act; an option can be clicked, an advice can be chosen, and
\* with an eligible player and an advice selected the leader can confirm.
C30_SomeoneEligible ==
    screen = "console" =>
        /\ Eligible # {}
        /\ Cardinality(Eligible) >= Len(players) - 2
        /\ ENABLED teammateOptionClick
        /\ ENABLED moveSuggestionClick
        /\ (selectedPlayer \in Eligible /\ selectedMove \in Moves) =>
              ENABLED confirmSelections

\* The third turn of three players: the leader has the one eligible player
\* and an advice selected and can confirm.
C30_Witness ==
    /\ screen = "console"
    /\ currentTeamLeaderIndex = 2
    /\ Cardinality(Eligible) = 1
    /\ selectedPlayer \in Eligible
    /\ selectedMove = "paper"

\* ------------------------------------------------------------ advice claim
\* The result of the actor's move p against the engine's move a.
Outcome(p, a) ==
    IF Beats(p, a) THEN "player" ELSE IF Beats(a, p) THEN "ai" ELSE "tie"

\* The scores that may follow `score` when a turn with result o is resolved.
ResolvedScores(score, o) ==
    IF o = "player" THEN {[score EXCEPT !.goodTeam = @ + 1]}
    ELSE IF o = "ai" THEN {[score EXCEPT !.badTeam = @ + 1]}
    ELSE IF score.ties + 1 = 3
    THEN {[score EXCEPT !.ties = @ + 1, !.goodTeam = @ + 1],
          [score EXCEPT !.ties = @ + 1, !.badTeam = @ + 1]}
    ELSE IF score.ties + 1 = 4
    THEN {[score EXCEPT !.ties = @ + 1, !.goodTeam = @ + 1]}
    ELSE {[score EXCEPT !.ties = @ + 1]}

\* C31: whatever the leader advised, the actor can pick each of the three
\* moves, the move submitted is the one the actor picked, the result of the
\* turn is the result of that move against the engine move, and the score
\* changes as that result says: none of them depends on the advice.
C31_AdviceNotBinding ==
    [][/\ screen = "decision" =>
             \A m \in Moves : ENABLED (finalMoveClick /\ finalMove' = m)
       /\ playerMove' # playerMove => playerMove' = finalMove
       /\ (screen = "decision" /\ screen' = "battle") =>
             gameResult' = Outcome(playerMove, aiMove)
       /\ gameResult' # gameResult =>
             (screen = "decision" /\ screen' = "battle")
       /\ gameScore' # gameScore =>
             /\ gameResult = Outcome(playerMove, aiMove)
             /\ gameScore' \in ResolvedScores(gameScore, Outcome(playerMove, aiMove))
      ]_vars

\* The leader advised rock against the engine's rock; the actor played
\* paper instead and the Good team has its point.
C31_Witness ==
    /\ screen = "analysis"
    /\ suggestedMove = "rock"
    /\ aiMove = "rock"
    /\ playerMove = "paper"
    /\ gameResult = "player"
    /\ gameScore = [goodTeam |-> 1, badTeam |-> 0, ties |-> 0]

\* ------------------------------------------------------- role-reveal claims
RevealScreens == {"instructions", "call", "secret", "prompt"}

ReceivedSeats(roster) == {k \in 1..Len(roster) : roster[k].hasReceived}

\* C32: during role reveal each player is called exactly once, in the order
\* of the players array; the secret screen shows the called player's own
\* role and, when a partner is linked, that partner only; the assignment is
\* completed once, only when every player has hasReceived = true, and
\* isAssigningRoles is true from the start of the assignment until then.
C32_RevealOrder ==
    [][/\ callScreens' > callScreens =>
            ReceivedSeats(players') = 1..currentPlayerIndex'
       /\ ReceivedSeats(players') # ReceivedSeats(players) =>
            /\ rmScreen = "call" /\ rmScreen' = "secret"
            /\ ReceivedSeats(players') =
                   ReceivedSeats(players) \cup {currentPlayerIndex + 1}
       /\ rmScreen = "secret" =>
            /\ players[currentPlayerIndex + 1].hasReceived
            /\ secretSeats(currentPlayerIndex + 1) =
                   {currentPlayerIndex + 1} \cup
                   {k \in 1..Len(players) :
                      players[k].index = players[currentPlayerIndex + 1].partnerId}
       /\ (rmScreen # "complete" /\ rmScreen' = "complete") =>
            /\ ReceivedSeats(players') = 1..Len(players')
            /\ isAssigningRoles /\ ~isAssigningRoles'
       /\ rmScreen = "complete" => rmScreen' = "complete"
       /\ rmScreen' \in RevealScreens => isAssigningRoles'
       /\ (isAssigningRoles /\ ~isAssigningRoles') => rmScreen' = "complete"
      ]_vars

C32_Witness ==
    /\ rmScreen = "complete"
    /\ Len(players) = 6
    /\ ReceivedSeats(players) = 1..6
    /\ ~isAssigningRoles

\* C33: the role reveal is started exactly once, whichever way the
\* instruction screen ends: the call screen of the first player is appended
\* only by a step that removes the instructions overlay, no second one is
\* appended whatever the order of the skip click, the ends of the narrated
\* sentences and the end of the pause, and showInitialInstructions does not
\* return leaving the instructions overlay up.
C33_RevealStartedOnce ==
    [][/\ (currentPlayerIndex' = 0 /\ callScreens' > callScreens) =>
            /\ rmScreen \in {"none", "instructions"}
            /\ callScreens = 0
            /\ callScreens' = 1
            /\ rmScreen' = "call"
       /\ callScreens' <= 1
       /\ (rmScreen' = "instructions") => narration' \in 1..(NarrationSentences + 1)
       /\ (rmScreen = "instructions" /\ rmScreen' # "instructions") =>
            callScreens' = callScreens + 1
      ]_vars

C33_Witness ==
    /\ rmScreen = "call"
    /\ currentPlayerIndex = 0
    /\ callScreens = 1
    /\ userSkipped
    /\ narration = 0

\* --------------------------------------------------------- session phases
\* C34: the phases run in sequence.  The suspicion vote starts only after
\* role assignment has completed; the duel starts only after the suspicion
\* vote has completed with a vote of every player, or straight after role
\* assignment when the vote is skipped; and once the duel is initialised its
\* thresholds and leader rotation are not drawn again and no earlier phase
\* resumes.
C34_PhasesInSequence ==
    [][/\ (fiScreen = "none" /\ fiScreen' # "none") =>
            /\ rmScreen = "complete"
            /\ ~isAssigningRoles
            /\ ReceivedSeats(players) = 1..Len(players)
            /\ screen = "none"
       /\ (screen = "none" /\ screen' # "none") =>
            /\ rmScreen = "complete"
            /\ ~isAssigningRoles
            /\ ReceivedSeats(players) = 1..Len(players)
            /\ \/ /\ fiScreen = "done"
                  /\ {votes[i].key : i \in 1..Len(votes)} = 0..(Len(players) - 1)
                  /\ firstImpressions # <<>>
               \/ /\ fiScreen = "none"
                  /\ votes = <<>>
       /\ screen # "none" =>
            /\ screen' # "none"
            /\ UNCHANGED <<winThresholds, teamLeaderRotation, players,
                           currentPlayerIndex, isAssigningRoles, rmScreen,
                           callScreens, fiVars>>
       /\ fiScreen # "none" => (fiScreen' # "none" /\ rmScreen' = "complete")
      ]_vars

C34_Witness ==
    /\ screen = "leader"
    /\ fiScreen = "done"
    /\ Len(votes) = Len(players)
    /\ Len(players) = 4
    /\ winThresholds = setWinThresholds(4)

\* ------------------------------------------------- identifiers in the vote map
\* C36 as stated: every identifier in the vote map is the stable index value
\* of the player it stands for (the player at that position of the array the
\* vote runs on).
C36_VoteIdsAreIndexValues ==
    \A i \in 1..Len(votes) :
        /\ players[votes[i].key + 1].index = votes[i].key
        /\ players[votes[i].value + 1].index = votes[i].value

\* C36 as amended: the identifiers in the vote map are positions in the
\* players array as FirstImpressionsChallenge.init shuffled it, the voter's
\* being the position of the player called to vote and the suspect's another
\* position; the array is not reordered again in the session, so an entry
\* keeps referring to the same two players.
C36_VoteIdsArePositions ==
    [][/\ Len(votes') > Len(votes) =>
            /\ votes'[Len(votes')].key = fiCurrentPlayerIndex
            /\ votes'[Len(votes')].value \in 0..(Len(players) - 1)
            /\ votes'[Len(votes')].value # fiCurrentPlayerIndex
       /\ votes # <<>> => PlayerOrder' = PlayerOrder
      ]_vars

C36_Witness ==
    /\ Len(votes) = Len(players)
    /\ \E i \in 1..Len(votes) : players[votes[i].key + 1].index # votes[i].key
    /\ screen = "leader"

\* ------------------------------------------------ consecutive participation
\* The Team Leader of the turn completed last.
PreviousLeader ==
    teamLeaderRotation[((currentTeamLeaderIndex + Len(teamLeaderRotation) - 1)
                          % Len(teamLeaderRotation)) + 1]

\* C37: no player takes part in consecutive turns.  In a turn that follows a
\* completed one, the Team Leader is neither the Team Leader nor the actor of
\* the completed turn, and neither is the actor once chosen.
C37_NoConsecutiveParticipation ==
    (lastSelectedPlayer # null /\ screen \in TurnScreens) =>
        /\ teamLeader \notin {PreviousLeader, lastSelectedPlayer}
        /\ screen \in {"decision", "battle", "analysis"} =>
              chosenPlayer \notin {PreviousLeader, lastSelectedPlayer}

\* ------------------------------------------------------------ player colours
RosterColorsDistinct(roster) ==
    \A i, j \in 1..Len(roster) : i # j => roster[i].color # roster[j].color

\* C35: every roster that reaches role assignment has pairwise-distinct
\* colours, and neither the colour grid nor the play-again dropdowns ever
\* hold the same colour for two players.
C35_DistinctColors ==
    /\ isAssigningRoles => RosterColorsDistinct(playersData)
    /\ colorScreen = "grid" =>
          \A i, j \in 1..Len(selectedColors) :
              (i # j /\ selectedColors[i] # null) =>
                  selectedColors[i] # selectedColors[j]
    /\ colorScreen = "dropdown" =>
          \A i, j \in 1..Len(replayColors) :
              i # j => replayColors[i] # replayColors[j]

\* ------------------------------------------------------------------ play again
ReplayStarts == rmScreen = "complete" /\ rmScreen' \in {"instructions", "call"}

\* C38: a game started by Play Again With Same Players begins from fresh
\* state.  When role assignment starts again the roster is a fresh draw of
\* generatePlayerRoles with nobody marked hasReceived and the reveal index at
\* 0, and the duel that follows starts with all three counters at 0,
\* gameEnded false, no winner, no lastSelectedPlayer, completedFirstRound
\* false and the leader pointer at 0.
C38_ReplayFromFreshState ==
    [][/\ ReplayStarts =>
            /\ players' \in generatePlayerRoles(playersData')
            /\ ReceivedSeats(players') = {}
            /\ currentPlayerIndex' = 0
            /\ isAssigningRoles'
       /\ (screen = "none" /\ screen' = "intro") =>
            /\ gameScore' = [goodTeam |-> 0, badTeam |-> 0, ties |-> 0]
            /\ ~gameEnded'
            /\ winningTeam' = "undefined"
            /\ lastSelectedPlayer' = null
            /\ ~completedFirstRound'
            /\ currentTeamLeaderIndex' = 0
            /\ teamLeader' = null
            /\ chosenPlayer' = null
      ]_vars

\* Play Again was pressed after a finished game, the roster has been through
\* its second role assignment, and the next duel is about to be constructed
\* while the fields of the finished one still show its final score.
C38_Witness ==
    /\ rmScreen = "complete"
    /\ colorScreen = "none"
    /\ screen = "none"
    /\ gameEnded
    /\ gameScore.goodTeam + gameScore.badTeam > 0
    /\ ENABLED init
====
